---- MODULE Spec2Model ----
(***************************************************************************)
(* A state-machine model of the spoutbreeze backend: the broadcaster       *)
(* orchestration service and its in-memory stream tracking, subscriptions  *)
(* and plan limits, the event state machine, the cache decorators, the     *)
(* OAuth token tables and the YouTube chat client.                         *)
(*                                                                         *)
(* Every handler is cut at its await points: one action per synchronous    *)
(* segment, so that the interleavings of the asyncio event loop are the    *)
(* interleavings of the actions.                                           *)
(***************************************************************************)
EXTENDS Integers, Sequences, FiniteSets, TLC

(***************************************************************************)
(* Bounds of the model.                                                    *)
(***************************************************************************)
\* Handler calls (start_broadcasting, stop_broadcast) made in one behaviour.
MaxCalls == 3
\* token rows stored in one behaviour (both tables together)
MaxRows == 3
\* How many chat clients and connect tasks the services create.
MaxClients == 3
MaxTasks == 4

\* Seconds (as clock ticks) an entry written by a decorator lives.
Ttl == 2
MaxPolled == 3
\* Token rows one user gets in one behaviour.
MaxIrcRows == 3
MaxBatch == 2
MaxCustomers == 3
MaxVersions == 2

(***************************************************************************)
(* Values.                                                                 *)
(***************************************************************************)
\* Python's None for an optional number (a limit that is absent = unlimited).
None == -1

Users == {"u1", "u2"}
NoUser == "nobody"

\* The worker hands out a fresh stream id per accepted start.
Sids == 1..MaxCalls
NoSid == 0
\* Handler invocations that can be in flight at once.
StartReqs == {1, 2}
StopReqs == {1, 2}

PlatformNames == {"Twitch", "YouTube", "custom"}

PlanFree == "free"
PlanPro == "pro"
PlanEnterprise == "enterprise"
Plans == {PlanFree, PlanPro, PlanEnterprise}

StatusActive == "active"
StatusTrialing == "trialing"
StatusCanceled == "canceled"
StatusPastDue == "past_due"
Statuses == {StatusActive, StatusTrialing, StatusCanceled, "incomplete",
             "incomplete_expired", StatusPastDue, "unpaid"}

\* settings.stripe_*_price_id, and a price id that is none of them
PriceFree == "price_free"
PricePro == "price_pro"
PriceEnterprise == "price_enterprise"
Prices == {PriceFree, PricePro, PriceEnterprise, "price_unknown"}

EventIds == {"e1", "e2"}
Titles == {"t1", "t2"}
Scheduled == "SCHEDULED"
Live == "LIVE"
Ended == "ENDED"

StripeSubIds == {"sub_a", "sub_b"}
NoSubId == "no_sub_id"

VARIABLES
    \* broadcaster_service.py module state
    userStreams,      \* _user_streams: user id -> set of stream ids
    streamToUser,     \* _stream_to_user: stream id -> user id
    streamPlatforms,  \* _stream_platforms: stream id -> platform
    sreq,             \* start_broadcasting calls in flight
    preq,             \* stop_broadcast calls in flight
    lastResp,         \* the answer of the call that finished last
    calls,            \* handler calls made so far
    nextSid,          \* next stream id the worker hands out
    \* subscriptions table
    subs,             \* user id -> Subscription row (NoSub when absent)
    limitsResp,       \* last answer of GET /api/payments/limits per user
    \* twitch_tokens and youtube_tokens tables
    tokens,           \* the committed rows of both tables, oldest first
    tcb,              \* OAuth callback transactions in flight
    trf,              \* the Twitch refresh in flight
    \* one YouTubeChatClient
    yt,               \* its fields and the position of connect()
    ysend,            \* the send_message call in flight
    quotaLatched,     \* a quotaExceeded answer came since the last connect()
    \* events table and the conferencing service
    events,           \* event id -> Event row (NoEvent when absent)
    createCalls,      \* create_meeting calls received, per event
    endCalls,         \* end_meeting calls received, per event
    lastEvt,          \* the outcome of the event operation made last
    \* redis_config.py: the cache store and the decorated calls in flight
    store,            \* key -> entry of the cache store
    ccall,            \* calls of decorated functions
    \* the resolution start_broadcasting sends to the worker
    res,               \* the resolution computed last, with its inputs
    \* the payment ledger
    txns,             \* the transactions table, oldest first
    hookResp,          \* the status the webhook endpoint answered last
    \* subscriptions table: the cancellation columns
    cancelInfo,       \* user id -> cancel_at_period_end and canceled_at of the row
    cancelResp,        \* the status cancel_subscription answered last
    \* channels table
    channels,         \* channel id -> the row of the channels table
    chanResp,          \* the outcome of the last channel operation
    \* stream_endpoints table
    endpoints,        \* endpoint id -> the row of the stream_endpoints table
    rtmpResp,          \* the outcome of the last endpoint operation
    \* chat connection managers
    registry,         \* platform -> the _connections dictionary, as (user id, client) pairs
    clientsCreated,   \* how many chat clients were constructed
    tasksStarted,     \* how many connect tasks were created
    stops,             \* stop call -> where it is in stop_connection_for_user
    \* Chat Gateway client
    sessions,         \* platform -> the users with a chat session open at the gateway
    gwLast,            \* the last call of the chat gateway client and how it ended
    \* users table and the get_current_user dependencies
    userRows,         \* the keycloak ids that have a row in the users table
    authResp,          \* the last get_current_user call: its inputs and its outcome
    \* user listing endpoints
    usersResp,         \* the last call of GET /api/users or GET /api/users/{id}
    \* users table: the operator flag
    unlimited,         \* user id -> the unlimited_access column of the users table
    \* persistent stream tracking and the cleanup sweep
    pset,             \* user id -> the persistent active-stream set of the user
    reverse,          \* stream id -> the user of the reverse pointer, NoUser when the key is absent
    sweep,             \* where cleanup_stale_streams is, and what it has seen
    \* YouTube chat polling (youtube_chat_client.py, youtube_service.py)
    pollRegistry,     \* YouTubeService._connections while clients poll
    pollClients,      \* YouTube chat clients constructed so far
    stopPolling,      \* client -> its _stop_polling flag
    pollers,          \* poll task -> where its connect coroutine is
    polled,           \* user -> messages returned by polls so far
    forwarded,         \* user -> read positions, in the order forwarded
    lastStart,         \* what the last start_connection_for_user did
    \* RedisCache (redis_config.py)
    redisClient,      \* RedisCache.redis_client is set
    redisConn,        \* where a connect() call is
    redisData,        \* the Redis server: key -> entry
    redisResp,         \* how the last RedisCache call ended
    \* TwitchIRCClient (twitch_irc.py)
    ircRows,          \* twitch_tokens rows of the client's user, oldest first
    irc,              \* one TwitchIRCClient: its fields and where connect() is
    ircRef,            \* the refresh_token_if_needed call in flight
    \* YouTubeChatClient._make_api_request by itself
    apiCall,           \* one call of _make_api_request: where it is and what it sent
    \* the Broadcaster worker
    gone,              \* stream ids the Broadcaster worker no longer has
    \* the subscriptions table as rows
    subRows,          \* the rows of the subscriptions table, in insertion order
    prov,             \* the operations that read or create a subscription row
    nextCustomer,      \* the next Stripe customer id
    \* a cached_db read with the data it reads
    db,               \* the data a cached read is computed from: its version, whether an invalidation is due, and the invalidations completed
    centry,           \* the cache entry of the read
    reads             \* the calls of the cached read

bvars == <<userStreams, streamToUser, streamPlatforms, sreq, preq,
           lastResp, calls, nextSid>>
pvars == <<subs, limitsResp>>
evars == <<events, createCalls, endCalls, lastEvt>>
cvars == <<store, ccall>>
tvars == <<tokens, tcb, trf>>
yvars == <<yt, ysend, quotaLatched>>
rvars == <<res>>
lvars == <<txns, hookResp>>
kvars == <<cancelInfo, cancelResp>>
hvars == <<channels, chanResp>>
mvars == <<endpoints, rtmpResp>>
gvars == <<registry, clientsCreated, tasksStarted, stops>>
wvars == <<sessions, gwLast>>
avars == <<userRows, authResp>>
uvars == <<usersResp>>
xvars == <<unlimited>>
svars == <<pset, reverse, sweep>>
ovars == <<pollRegistry, pollClients, stopPolling, pollers, polled, forwarded,
           lastStart>>
dvars == <<redisClient, redisConn, redisData, redisResp>>
ivars == <<ircRows, irc, ircRef>>
qvars == <<apiCall>>
zvars == <<gone>>
jvars == <<subRows, prov, nextCustomer>>
nvars == <<db, centry, reads>>
vars == <<bvars, pvars, evars, cvars, tvars, yvars, rvars, lvars, kvars,
         hvars, mvars, gvars, wvars, avars, uvars, xvars, svars, ovars,
         dvars, ivars, qvars, zvars, jvars, nvars>>

\* What each subsystem leaves alone.
notB == <<limitsResp, evars, cvars, tvars, yvars, rvars, lvars, kvars,
         hvars, mvars, gvars, wvars, avars, uvars, xvars, svars, ovars,
         dvars, ivars, qvars, zvars, jvars, nvars>>
notP == <<bvars, evars, cvars, tvars, yvars, rvars, lvars, kvars, hvars,
         mvars, gvars, wvars, avars, uvars, xvars, svars, ovars, dvars,
         ivars, qvars, zvars, jvars, nvars>>
notE == <<bvars, pvars, cvars, tvars, yvars, rvars, lvars, kvars, hvars,
         mvars, gvars, wvars, avars, uvars, xvars, svars, ovars, dvars,
         ivars, qvars, zvars, jvars, nvars>>
notC == <<bvars, pvars, evars, tvars, yvars, rvars, lvars, kvars, hvars,
         mvars, gvars, wvars, avars, uvars, xvars, svars, ovars, dvars,
         ivars, qvars, zvars, jvars, nvars>>
notT == <<bvars, pvars, evars, cvars, yvars, rvars, lvars, kvars, hvars,
         mvars, gvars, wvars, avars, uvars, xvars, svars, ovars, dvars,
         ivars, qvars, zvars, jvars, nvars>>
notY == <<bvars, pvars, evars, cvars, tvars, rvars, lvars, kvars, hvars,
         mvars, gvars, wvars, avars, uvars, xvars, svars, ovars, dvars,
         ivars, qvars, zvars, jvars, nvars>>
notR == <<bvars, pvars, evars, cvars, tvars, yvars, lvars, kvars, hvars,
         mvars, gvars, wvars, avars, uvars, xvars, svars, ovars, dvars,
         ivars, qvars, zvars, jvars, nvars>>
notL == <<bvars, pvars, evars, cvars, tvars, yvars, rvars, kvars, hvars,
         mvars, gvars, wvars, avars, uvars, xvars, svars, ovars, dvars,
         ivars, qvars, zvars, jvars, nvars>>
notPL == <<bvars, evars, cvars, tvars, yvars, rvars, kvars, hvars, mvars,
         gvars, wvars, avars, uvars, xvars, svars, ovars, dvars, ivars,
         qvars, zvars, jvars, nvars>>
notK == <<bvars, pvars, evars, cvars, tvars, yvars, rvars, lvars, hvars,
         mvars, gvars, wvars, avars, uvars, xvars, svars, ovars, dvars,
         ivars, qvars, zvars, jvars, nvars>>
notPK == <<bvars, evars, cvars, tvars, yvars, rvars, lvars, hvars, mvars,
         gvars, wvars, avars, uvars, xvars, svars, ovars, dvars, ivars,
         qvars, zvars, jvars, nvars>>
notH == <<bvars, pvars, evars, cvars, tvars, yvars, rvars, lvars, kvars,
         mvars, gvars, wvars, avars, uvars, xvars, svars, ovars, dvars,
         ivars, qvars, zvars, jvars, nvars>>
notEH == <<bvars, pvars, cvars, tvars, yvars, rvars, lvars, kvars, mvars,
         gvars, wvars, avars, uvars, xvars, svars, ovars, dvars, ivars,
         qvars, zvars, jvars, nvars>>
notM == <<bvars, pvars, evars, cvars, tvars, yvars, rvars, lvars, kvars,
         hvars, gvars, wvars, avars, uvars, xvars, svars, ovars, dvars,
         ivars, qvars, zvars, jvars, nvars>>
notG == <<bvars, pvars, evars, cvars, tvars, yvars, rvars, lvars, kvars,
         hvars, mvars, wvars, avars, uvars, xvars, svars, ovars, dvars,
         ivars, qvars, zvars, jvars, nvars>>
notW == <<bvars, pvars, evars, cvars, tvars, yvars, rvars, lvars, kvars,
         hvars, mvars, gvars, avars, uvars, xvars, svars, ovars, dvars,
         ivars, qvars, zvars, jvars, nvars>>
notA == <<bvars, pvars, evars, cvars, tvars, yvars, rvars, lvars, kvars,
         hvars, mvars, gvars, wvars, uvars, xvars, svars, ovars, dvars,
         ivars, qvars, zvars, jvars, nvars>>
notU == <<bvars, pvars, evars, cvars, tvars, yvars, rvars, lvars, kvars,
         hvars, mvars, gvars, wvars, avars, xvars, svars, ovars, dvars,
         ivars, qvars, zvars, jvars, nvars>>
notX == <<bvars, pvars, evars, cvars, tvars, yvars, rvars, lvars, kvars,
         hvars, mvars, gvars, wvars, avars, uvars, svars, ovars, dvars,
         ivars, qvars, zvars, jvars, nvars>>
notS == <<bvars, pvars, evars, cvars, tvars, yvars, rvars, lvars, kvars,
         hvars, mvars, gvars, wvars, avars, uvars, xvars, ovars, dvars,
         ivars, qvars, zvars, jvars, nvars>>
notO == <<bvars, pvars, evars, cvars, tvars, yvars, rvars, lvars, kvars,
         hvars, mvars, gvars, wvars, avars, uvars, xvars, svars, dvars,
         ivars, qvars, zvars, jvars, nvars>>
notD == <<bvars, pvars, evars, cvars, tvars, yvars, rvars, lvars, kvars,
         hvars, mvars, gvars, wvars, avars, uvars, xvars, svars, ovars,
         ivars, qvars, zvars, jvars, nvars>>
notI == <<bvars, pvars, evars, cvars, tvars, yvars, rvars, lvars, kvars,
         hvars, mvars, gvars, wvars, avars, uvars, xvars, svars, ovars,
         dvars, qvars, zvars, jvars, nvars>>
notQ == <<bvars, pvars, evars, cvars, tvars, yvars, rvars, lvars, kvars,
         hvars, mvars, gvars, wvars, avars, uvars, xvars, svars, ovars,
         dvars, ivars, zvars, jvars, nvars>>
notPKL == <<bvars, evars, cvars, tvars, yvars, rvars, hvars, mvars, gvars,
         wvars, avars, uvars, xvars, svars, ovars, dvars, ivars, qvars,
         zvars, jvars, nvars>>
notZ == <<bvars, pvars, evars, cvars, tvars, yvars, rvars, lvars, kvars,
         hvars, mvars, gvars, wvars, avars, uvars, xvars, svars, ovars,
         dvars, ivars, qvars, jvars, nvars>>
notJ == <<bvars, pvars, evars, cvars, tvars, yvars, rvars, lvars, kvars,
         hvars, mvars, gvars, wvars, avars, uvars, xvars, svars, ovars,
         dvars, ivars, qvars, zvars, nvars>>
notN == <<bvars, pvars, evars, cvars, tvars, yvars, rvars, lvars, kvars,
         hvars, mvars, gvars, wvars, avars, uvars, xvars, svars, ovars,
         dvars, ivars, qvars, zvars, jvars>>

(***************************************************************************)
(* Python dictionaries are functions on strings; d.get(k, default).        *)
(***************************************************************************)
EmptyDict == [k \in {} |-> None]

DictGet(d, k, default) == IF k \in DOMAIN d THEN d[k] ELSE default

(***************************************************************************)
(* Subscriptions and plan limits (payment_models.py, payment_service.py).  *)
(***************************************************************************)
NoSub == [plan |-> "none", status |-> "none",
          stripe_subscription_id |-> NoSubId, stripe_price_id |-> "none"]

\* The literal returned by get_current_limits for an inactive subscription.
FreeLimitsLiteral ==
    [max_quality |-> "720p", max_concurrent_streams |-> 1,
     max_stream_duration_hours |-> 1, support_response_hours |-> 72,
     support_channels |-> <<"email">>, chat_filter |-> FALSE,
     oauth_enabled |-> FALSE, analytics_enabled |-> FALSE]

GetPlanLimits_ProAsFree(plan) ==
    IF plan \in {PlanFree, PlanPro} THEN FreeLimitsLiteral
    ELSE IF plan = PlanEnterprise THEN
        [max_quality |-> "4K", max_concurrent_streams |-> None,
         max_stream_duration_hours |-> None, support_response_hours |-> 0,
         support_channels |-> <<"email", "chat">>, chat_filter |-> TRUE,
         oauth_enabled |-> TRUE, analytics_enabled |-> TRUE]
    ELSE EmptyDict

\* Subscription.get_plan_limits
GetPlanLimits(plan) ==
    IF plan = PlanFree THEN
        [max_quality |-> "720p", max_concurrent_streams |-> 1,
         max_stream_duration_hours |-> 1, support_response_hours |-> 72,
         support_channels |-> <<"email">>, chat_filter |-> FALSE,
         oauth_enabled |-> FALSE, analytics_enabled |-> FALSE]
    ELSE IF plan = PlanPro THEN
        [max_quality |-> "1080p", max_concurrent_streams |-> 10,
         max_stream_duration_hours |-> None, support_response_hours |-> 24,
         support_channels |-> <<"email", "chat">>, chat_filter |-> FALSE,
         oauth_enabled |-> FALSE, analytics_enabled |-> FALSE]
    ELSE IF plan = PlanEnterprise THEN
        [max_quality |-> "4K", max_concurrent_streams |-> None,
         max_stream_duration_hours |-> None, support_response_hours |-> 0,
         support_channels |-> <<"email", "chat">>, chat_filter |-> TRUE,
         oauth_enabled |-> TRUE, analytics_enabled |-> TRUE]
    ELSE EmptyDict

\* Subscription.is_active
IsActive(sub) == sub.status \in {StatusActive, StatusTrialing}

\* PaymentService._get_plan_from_price_id
GetPlanFromPriceId(price) ==
    IF price = PricePro THEN PlanPro
    ELSE IF price = PriceEnterprise THEN PlanEnterprise
    ELSE PlanFree

\* The row create_free_subscription inserts.
FreeTrialSub == [plan |-> PlanFree, status |-> StatusTrialing,
                 stripe_subscription_id |-> NoSubId,
                 stripe_price_id |-> "none"]

\* The unique index on subscriptions.stripe_subscription_id: would giving
\* user u the processor id subId collide with another user's row?
SubIdTaken(u, subId) ==
    \E v \in Users : v # u /\ subs[v] # NoSub
                     /\ subs[v].stripe_subscription_id = subId

SubOwner_AnyRow(subId) ==
    IF \E v \in Users : subs[v] # NoSub
    THEN CHOOSE v \in Users : subs[v] # NoSub
    ELSE NoUser

\* The user whose row carries processor subscription id subId (NoUser if none).
SubOwner(subId) ==
    IF \E v \in Users : subs[v] # NoSub /\ subs[v].stripe_subscription_id = subId
    THEN CHOOSE v \in Users :
             subs[v] # NoSub /\ subs[v].stripe_subscription_id = subId
    ELSE NoUser

\* PaymentService._handle_subscription_created
HandleSubscriptionCreated(u, subId, price, status) ==
    /\ IF u \notin Users \/ SubIdTaken(u, subId)
       THEN UNCHANGED subs
       ELSE subs' = [subs EXCEPT ![u] =
                [plan |-> GetPlanFromPriceId(price), status |-> status,
                 stripe_subscription_id |-> subId, stripe_price_id |-> price]]
    /\ UNCHANGED <<limitsResp, notP>>

\* The cancellation columns of a new row.
NotCanceled == [cancel_at_period_end |-> FALSE, canceled_at |-> FALSE]

\* PaymentService._handle_subscription_updated; capEnd and canceledAt: the
\* event's cancel_at_period_end, and whether it carries a canceled_at.
HandleSubscriptionUpdated(subId, price, status, capEnd, canceledAt) ==
    /\ LET u == SubOwner(subId) IN
       IF u = NoUser THEN UNCHANGED <<subs, cancelInfo>>
       ELSE /\ subs' = [subs EXCEPT ![u] =
                [plan |-> IF price # subs[u].stripe_price_id
                          THEN GetPlanFromPriceId(price) ELSE subs[u].plan,
                 status |-> status,
                 stripe_subscription_id |-> subId,
                 stripe_price_id |-> price]]
            /\ cancelInfo' = [cancelInfo EXCEPT ![u] =
                [cancel_at_period_end |-> capEnd,
                 canceled_at |-> canceledAt \/ cancelInfo[u].canceled_at]]
    /\ UNCHANGED <<limitsResp, cancelResp, notPK>>

\* PaymentService._handle_subscription_deleted
HandleSubscriptionDeleted(subId) ==
    /\ LET u == SubOwner(subId) IN
       IF u = NoUser THEN UNCHANGED <<subs, cancelInfo>>
       ELSE /\ subs' = [subs EXCEPT ![u].status = StatusCanceled]
            /\ cancelInfo' = [cancelInfo EXCEPT ![u].canceled_at = TRUE]
    /\ UNCHANGED <<limitsResp, cancelResp, notPK>>

\* GET /api/payments/limits (payment_controller.get_current_limits);
\* stripeOk: whether the processor call of create_free_subscription succeeds.
GetCurrentLimits(u, stripeOk) ==
    /\ IF subs[u] = NoSub /\ ~stripeOk
       THEN /\ limitsResp' = [limitsResp EXCEPT ![u] =
                                [code |-> 500, body |-> EmptyDict]]
            /\ UNCHANGED subs
       ELSE LET sub == IF subs[u] = NoSub THEN FreeTrialSub ELSE subs[u] IN
            /\ subs' = [subs EXCEPT ![u] = sub]
            /\ limitsResp' = [limitsResp EXCEPT ![u] =
                 [code |-> 200,
                  body |-> IF ~IsActive(sub) THEN FreeLimitsLiteral
                           ELSE GetPlanLimits(sub.plan)]]
    /\ UNCHANGED notP

(***************************************************************************)
(* BroadcasterService (broadcaster_service.py).                            *)
(***************************************************************************)
IdleStart == [pc |-> "idle", user |-> NoUser, platform |-> "custom",
              sid |-> NoSid]
IdleStop == [pc |-> "idle", sid |-> NoSid, user |-> NoUser,
             platform |-> "none", tracked |-> FALSE]

\* The answer a finished call gave: the HTTP status, the limit the detail
\* of a 403 names, and for a stop whether the stream id was tracked when the
\* call was made.
Resp(op, status, detail, tracked) ==
    [op |-> op, status |-> status, detail |-> detail, tracked |-> tracked]

\* len(_user_streams[user_id]) on the defaultdict
ActiveStreamCount(u) == Cardinality(userStreams[u])

LimitReached_Strict(max, count) == max # None /\ count > max

\* The condition of the concurrent-stream check.
LimitReached(max, count) == max # None /\ count >= max

\* "twitch" in platform.lower() / "youtube" in platform.lower()
DetectPlatform(platform) ==
    IF platform = "Twitch" THEN "twitch"
    ELSE IF platform = "YouTube" THEN "youtube"
    ELSE "none"

\* start_broadcasting up to the await of the POST to the worker: user
\* lookup, subscription (created when missing), limit check, BBB calls.
StartBegin(r, u, platform, stripeOk, bbbOk) ==
    /\ sreq[r].pc = "idle"
    /\ \A r2 \in StartReqs : r2 < r => sreq[r2].pc # "idle"
    /\ calls < MaxCalls
    /\ calls' = calls + 1
    /\ IF u \notin Users
       THEN /\ lastResp' = Resp("start", 404, 0, FALSE)
            /\ UNCHANGED <<sreq, subs>>
       ELSE IF subs[u] = NoSub /\ ~stripeOk
       THEN /\ lastResp' = Resp("start", 500, 0, FALSE)
            /\ UNCHANGED <<sreq, subs>>
       ELSE LET sub == IF subs[u] = NoSub THEN FreeTrialSub ELSE subs[u]
                limits == GetPlanLimits(sub.plan)
                max_concurrent_streams ==
                    DictGet(limits, "max_concurrent_streams", None)
            IN
            /\ subs' = [subs EXCEPT ![u] = sub]
            /\ IF LimitReached(max_concurrent_streams, ActiveStreamCount(u))
               THEN /\ lastResp' = Resp("start", 403,
                                         max_concurrent_streams, FALSE)
                    /\ UNCHANGED sreq
               ELSE IF ~bbbOk
               THEN /\ lastResp' = Resp("start", 500, 0, FALSE)
                    /\ UNCHANGED sreq
               ELSE /\ sreq' = [sreq EXCEPT ![r] =
                          [IdleStart EXCEPT !.pc = "posting", !.user = u,
                                            !.platform = platform]]
                    /\ UNCHANGED lastResp
    /\ UNCHANGED <<userStreams, streamToUser, streamPlatforms, preq, nextSid>>
    /\ UNCHANGED notB

\* The worker's answer to the POST: "ok" carries a fresh stream id.
StartPostReturn(r, resp) ==
    /\ sreq[r].pc = "posting"
    /\ IF resp = "ok"
       THEN /\ nextSid \in Sids
            /\ LET u == sreq[r].user
                   stream_id == nextSid
               IN
               /\ userStreams' = [userStreams EXCEPT ![u] = @ \cup {stream_id}]
               /\ streamToUser' = [streamToUser EXCEPT ![stream_id] = u]
               /\ IF DetectPlatform(sreq[r].platform) = "none"
                  THEN /\ sreq' = [sreq EXCEPT ![r] = IdleStart]
                       /\ lastResp' = Resp("start", 200, 0, FALSE)
                  ELSE /\ sreq' = [sreq EXCEPT ![r] =
                             [@ EXCEPT !.pc = "chat", !.sid = stream_id]]
                       /\ UNCHANGED lastResp
            /\ nextSid' = nextSid + 1
       ELSE /\ sreq' = [sreq EXCEPT ![r] = IdleStart]
            /\ lastResp' = Resp("start",
                                IF resp = "timeout" THEN 504
                                ELSE IF resp = "error" THEN 500
                                ELSE 502, 0, FALSE)
            /\ UNCHANGED <<userStreams, streamToUser, nextSid>>
    /\ UNCHANGED <<streamPlatforms, preq, subs, calls>>
    /\ UNCHANGED notB

PlatformConnected_Assumed(platform, connected) == DetectPlatform(platform)

\* platform_connected: set only after the connect call returned.
PlatformConnected(platform, connected) ==
    IF connected THEN DetectPlatform(platform) ELSE "none"

\* The chat gateway's answer to connect_twitch / connect_youtube; a raised
\* exception is logged and swallowed.
StartChatReturn(r, connected) ==
    /\ sreq[r].pc = "chat"
    /\ streamPlatforms' =
         IF PlatformConnected(sreq[r].platform, connected) # "none"
         THEN [streamPlatforms EXCEPT ![sreq[r].sid] =
                   PlatformConnected(sreq[r].platform, connected)]
         ELSE streamPlatforms
    /\ sreq' = [sreq EXCEPT ![r] = IdleStart]
    /\ lastResp' = Resp("start", 200, 0, FALSE)
    /\ UNCHANGED <<userStreams, streamToUser, preq, nextSid, subs, calls>>
    /\ UNCHANGED notB

CleanupKeepUserSet(stream_id, user_id) ==
    /\ streamToUser' = [streamToUser EXCEPT ![stream_id] = NoUser]
    /\ streamPlatforms' = [streamPlatforms EXCEPT ![stream_id] = "none"]
    /\ UNCHANGED userStreams

\* The in-memory cleanup that ends stop_broadcast; user_id is the value
\* read from _stream_to_user before the disconnect.
Cleanup(stream_id, user_id) ==
    /\ streamToUser' = [streamToUser EXCEPT ![stream_id] = NoUser]
    /\ streamPlatforms' = [streamPlatforms EXCEPT ![stream_id] = "none"]
    /\ userStreams' =
         IF user_id # NoUser /\ stream_id \in userStreams[user_id]
         THEN [userStreams EXCEPT ![user_id] = @ \ {stream_id}]
         ELSE userStreams

\* stop_broadcast is called with a stream id and awaits the DELETE.
StopBegin(q, s) ==
    /\ preq[q].pc = "idle"
    /\ \A q2 \in StopReqs : q2 < q => preq[q2].pc # "idle"
    /\ calls < MaxCalls
    /\ calls' = calls + 1
    /\ preq' = [preq EXCEPT ![q] =
                  [IdleStop EXCEPT !.pc = "deleting", !.sid = s,
                                   !.tracked = (streamToUser[s] # NoUser)]]
    /\ UNCHANGED <<userStreams, streamToUser, streamPlatforms, sreq,
                   nextSid, subs, lastResp>>
    /\ UNCHANGED notB

\* The worker's answer to the DELETE: a failure is a 500; on success the
\* owner and the platform are read, and the chat disconnect is awaited when
\* both are known, else the cleanup runs at once.
StopDeleteReturn(q, ok) ==
    /\ preq[q].pc = "deleting"
    /\ LET stream_id == preq[q].sid
           user_id == streamToUser[stream_id]
           platform == streamPlatforms[stream_id]
       IN
       IF ~ok
       THEN /\ preq' = [preq EXCEPT ![q] = IdleStop]
            /\ lastResp' = Resp("stop", 500, 0, preq[q].tracked)
            /\ UNCHANGED <<userStreams, streamToUser, streamPlatforms>>
       ELSE IF user_id # NoUser /\ platform # "none"
       THEN /\ preq' = [preq EXCEPT ![q] =
                          [@ EXCEPT !.pc = "disconnecting",
                                    !.user = user_id, !.platform = platform]]
            /\ UNCHANGED <<userStreams, streamToUser, streamPlatforms,
                           lastResp>>
       ELSE /\ preq' = [preq EXCEPT ![q] = IdleStop]
            /\ lastResp' = Resp("stop", 200, 0, preq[q].tracked)
            /\ Cleanup(stream_id, user_id)
    /\ UNCHANGED <<sreq, nextSid, subs, calls>>
    /\ UNCHANGED notB

\* disconnect_twitch / disconnect_youtube return (or raise: swallowed).
StopDisconnectReturn(q) ==
    /\ preq[q].pc = "disconnecting"
    /\ preq' = [preq EXCEPT ![q] = IdleStop]
    /\ lastResp' = Resp("stop", 200, 0, preq[q].tracked)
    /\ Cleanup(preq[q].sid, preq[q].user)
    /\ UNCHANGED <<sreq, nextSid, subs, calls>>
    /\ UNCHANGED notB

(***************************************************************************)
(* The channels table (channels_model.py) and the channel service.         *)
(***************************************************************************)
ChannelIds == {"c1", "c2", "c3"}
ChannelNames == {"n1", "n2"}
NoChannelId == "-"
NoChannel == [name |-> "none", creator_id |-> NoUser]

PairTaken_OtherCreator(name, creator, except) ==
    \E c \in ChannelIds \ {except} :
        channels[c].name = name /\ channels[c].creator_id # creator

\* UniqueConstraint("name", "creator_id"): another row holds the pair.
PairTaken(name, creator, except) ==
    \E c \in ChannelIds \ {except} :
        channels[c].name = name /\ channels[c].creator_id = creator

HasFreeChannelId == \E c \in ChannelIds : channels[c] = NoChannel
FreeChannelId == CHOOSE c \in ChannelIds : channels[c] = NoChannel

\* get_channel_by_name, scoped to the owner.
ChannelOf(u, name) ==
    IF \E c \in ChannelIds :
           channels[c].name = name /\ channels[c].creator_id = u
    THEN CHOOSE c \in ChannelIds :
             channels[c].name = name /\ channels[c].creator_id = u
    ELSE NoChannelId

\* create_event's channel: the owner's channel of that name, or a new one.
ResolvedChannel(u, name) ==
    IF ChannelOf(u, name) # NoChannelId THEN ChannelOf(u, name)
    ELSE FreeChannelId
ResolveChannel(u, name) ==
    [channels EXCEPT ![ResolvedChannel(u, name)] =
        [name |-> name, creator_id |-> u]]

\* create_channel: a duplicate (name, owner) pair is a domain error and the
\* transaction is rolled back.
CreateChannel(u, name) ==
    /\ HasFreeChannelId
    /\ IF PairTaken(name, u, NoChannelId)
       THEN /\ chanResp' = "error"
            /\ UNCHANGED channels
       ELSE /\ channels' = [channels EXCEPT ![FreeChannelId] =
                               [name |-> name, creator_id |-> u]]
            /\ chanResp' = "ok"
    /\ UNCHANGED notH

\* update_channel: the sentinel when not found or not the owner; a commit
\* the database refuses is rolled back and re-raised.
UpdateChannel(c, u, name) ==
    /\ IF channels[c] = NoChannel \/ channels[c].creator_id # u
       THEN /\ chanResp' = "sentinel"
            /\ UNCHANGED channels
       ELSE IF PairTaken(name, u, c)
       THEN /\ chanResp' = "error"
            /\ UNCHANGED channels
       ELSE /\ channels' = [channels EXCEPT ![c].name = name]
            /\ chanResp' = "ok"
    /\ UNCHANGED notH

(***************************************************************************)
(* EventService: the event state machine.  Its module is not among the     *)
(* sources; the operations follow section 4.9 of the specification and the *)
(* behaviour the service tests pin down.                                   *)
(***************************************************************************)
\* An event id that was never given out; a deleted row keeps its id taken.
NoEvent == [exists |-> FALSE, deleted |-> FALSE, creator |-> NoUser,
            organizers |-> {}, title |-> "none", status |-> "none",
            meeting_created |-> FALSE, channel_id |-> NoChannelId]
DeletedEvent == [NoEvent EXCEPT !.deleted = TRUE]

\* The outcome of an operation: its result, whether it called the
\* conferencing service, and who made it ("creator", "other", or "nobody"
\* when the event was not found).
EvtOutcome(op, result, calledBBB, caller) ==
    [op |-> op, result |-> result, calledBBB |-> calledBBB, caller |-> caller]

CallerOf(ev, u) ==
    IF ~ev.exists THEN "nobody"
    ELSE IF ev.creator = u THEN "creator" ELSE "other"

IsCreator_OrOrganizer(ev, u) == ev.creator = u \/ u \in ev.organizers

\* Only the creator may start, end, update or delete an event.
IsCreator(ev, u) == ev.creator = u

StartNeedsMeeting_FlagOnly(ev) == ~ev.meeting_created \/ ev.status = Live

\* start_event creates the external meeting from SCHEDULED, guarded by the
\* meeting_created flag.
StartNeedsMeeting(ev) == ev.status = Scheduled /\ ~ev.meeting_created

CanEnd_NotEnded(ev) == ev.status # Ended

\* end_event is only legal from LIVE.
CanEnd(ev) == ev.status = Live

TitleTaken(title, except) ==
    \E e \in EventIds \ {except} : events[e].exists /\ events[e].title = title

\* create_event: SCHEDULED, meeting not yet created; a duplicate title is a
\* domain error; the named channel of the owner is resolved or created.
CreateEvent(e, u, title, name) ==
    /\ events[e] = NoEvent
    /\ ChannelOf(u, name) # NoChannelId \/ HasFreeChannelId
    /\ IF TitleTaken(title, e)
       THEN /\ lastEvt' = EvtOutcome("create", "error", FALSE, "creator")
            /\ UNCHANGED <<events, channels>>
       ELSE /\ events' = [events EXCEPT ![e] =
                 [exists |-> TRUE, deleted |-> FALSE, creator |-> u,
                  organizers |-> {}, title |-> title, status |-> Scheduled,
                  meeting_created |-> FALSE,
                  channel_id |-> ResolvedChannel(u, name)]]
            /\ channels' = ResolveChannel(u, name)
            /\ lastEvt' = EvtOutcome("create", "ok", FALSE, "creator")
    /\ UNCHANGED <<createCalls, endCalls, chanResp>>
    /\ UNCHANGED notEH

\* start_event: a no-op returning the join information when LIVE; from
\* SCHEDULED the external meeting is created and the event goes LIVE.
StartEvent(e, u) ==
    LET ev == events[e] IN
    /\ IF ~ev.exists \/ ~IsCreator(ev, u)
       THEN /\ lastEvt' = EvtOutcome("start", "error", FALSE, CallerOf(ev, u))
            /\ UNCHANGED <<events, createCalls>>
       ELSE IF StartNeedsMeeting(ev)
       THEN /\ createCalls' = [createCalls EXCEPT ![e] = @ + 1]
            /\ events' = [events EXCEPT ![e].meeting_created = TRUE,
                                        ![e].status = Live]
            /\ lastEvt' = EvtOutcome("start", "join", TRUE, CallerOf(ev, u))
       ELSE IF ev.status = Live
       THEN /\ lastEvt' = EvtOutcome("start", "join", FALSE, CallerOf(ev, u))
            /\ UNCHANGED <<events, createCalls>>
       ELSE /\ lastEvt' = EvtOutcome("start", "error", FALSE, CallerOf(ev, u))
            /\ UNCHANGED <<events, createCalls>>
    /\ UNCHANGED endCalls
    /\ UNCHANGED notE

\* end_event: tears the external meeting down and goes ENDED.
EndEvent(e, u) ==
    LET ev == events[e] IN
    /\ IF ~ev.exists \/ ~IsCreator(ev, u) \/ ~CanEnd(ev)
       THEN /\ lastEvt' = EvtOutcome("end", "error", FALSE, CallerOf(ev, u))
            /\ UNCHANGED <<events, endCalls>>
       ELSE /\ endCalls' = [endCalls EXCEPT ![e] = @ + 1]
            /\ events' = [events EXCEPT ![e].status = Ended]
            /\ lastEvt' = EvtOutcome("end", "ok", TRUE, CallerOf(ev, u))
    /\ UNCHANGED createCalls
    /\ UNCHANGED notE

\* update_event: a partial update of the title and of the organizer set.
UpdateEvent(e, u, title, organizers) ==
    LET ev == events[e] IN
    /\ IF ~ev.exists \/ ~IsCreator(ev, u) \/ TitleTaken(title, e)
       THEN /\ lastEvt' = EvtOutcome("update", "error", FALSE, CallerOf(ev, u))
            /\ UNCHANGED events
       ELSE /\ events' = [events EXCEPT ![e].title = title,
                                        ![e].organizers = organizers]
            /\ lastEvt' = EvtOutcome("update", "ok", FALSE, CallerOf(ev, u))
    /\ UNCHANGED <<createCalls, endCalls>>
    /\ UNCHANGED notE

\* delete_event: by the creator, at any status.
DeleteEvent(e, u) ==
    LET ev == events[e] IN
    /\ IF ~ev.exists \/ ~IsCreator(ev, u)
       THEN /\ lastEvt' = EvtOutcome("delete", "error", FALSE, CallerOf(ev, u))
            /\ UNCHANGED events
       ELSE /\ events' = [events EXCEPT ![e] = DeletedEvent]
            /\ lastEvt' = EvtOutcome("delete", "ok", FALSE, CallerOf(ev, u))
    /\ UNCHANGED <<createCalls, endCalls>>
    /\ UNCHANGED notE

\* delete_channel: the sentinel when not found or not the owner; the
\* channel's events go with it (cascade="all, delete-orphan").
DeleteChannel(c, u) ==
    /\ IF channels[c] = NoChannel \/ channels[c].creator_id # u
       THEN /\ chanResp' = "sentinel"
            /\ UNCHANGED <<channels, events>>
       ELSE /\ channels' = [channels EXCEPT ![c] = NoChannel]
            /\ events' = [e \in EventIds |->
                            IF events[e].exists /\ events[e].channel_id = c
                            THEN DeletedEvent ELSE events[e]]
            /\ chanResp' = "ok"
    /\ UNCHANGED <<createCalls, endCalls, lastEvt>>
    /\ UNCHANGED notEH

(***************************************************************************)
(* The cache store and the memoization decorators (redis_config.py).       *)
(***************************************************************************)
Decorators == {"cached", "cached_db"}
Args == {"a", "b"}
Sessions == {"s1", "s2"}
NoSession == "-"
CacheCalls == {"c1", "c2"}

\* A value a wrapped function or the cache returns; NoneVal is Python's None.
NoneVal == "None"

\* The pure function the decorators wrap: the result depends on the
\* non-session argument only, and is None for one argument (a lookup that
\* finds nothing).
WrappedResult(arg) == IF arg = "a" THEN "va" ELSE NoneVal

KeyOf_KeepSession(decorator, arg, session) == <<decorator, arg, session>>

\* The cache key: prefix and function name (one per decorator here) and the
\* digest of the arguments, from which cached_db first drops the session.
KeyOf(decorator, arg, session) ==
    IF decorator = "cached_db" THEN <<decorator, arg, NoSession>>
    ELSE <<decorator, arg, session>>

Keys == Decorators \X Args \X (Sessions \cup {NoSession})

Patterns == {"cached_db:*", "cached:*", "other:*"}

\* The glob of delete_pattern: a prefix followed by the wildcard.
Matches(pattern, k) ==
    \/ pattern = "cached_db:*" /\ k[1] = "cached_db"
    \/ pattern = "cached:*" /\ k[1] = "cached"

Absent == [present |-> FALSE, val |-> NoneVal, ttl |-> 0]

\* cache.get: the stored value, or None when the key is absent.
StoreGet(k) == IF store[k].present THEN store[k].val ELSE NoneVal

SetEffect_Always(ok, old, value) ==
    [present |-> TRUE, val |-> value, ttl |-> Ttl]

\* cache.set (SETEX): the entry after the call; a failed call writes nothing.
SetEffect(ok, old, value) ==
    IF ok THEN [present |-> TRUE, val |-> value, ttl |-> Ttl] ELSE old

\* "if hit is not None"
IsHit(hit) == hit # NoneVal

NoKey == <<"none", "none", NoSession>>

IdleCall == [pc |-> "idle", arg |-> "a", key |-> NoKey, result |-> NoneVal,
             invoked |-> 0, getFailed |-> FALSE, setFailed |-> FALSE]

CallKey(c) == ccall[c].key

\* A decorated function is called: the wrapper computes the key and awaits
\* cache.get.
CallBegin(c, decorator, arg, session) ==
    /\ ccall[c].pc \in {"idle", "done"}
    /\ ccall' = [ccall EXCEPT ![c] =
                   [IdleCall EXCEPT !.pc = "get", !.arg = arg,
                                    !.key = KeyOf(decorator, arg, session)]]
    /\ UNCHANGED store
    /\ UNCHANGED notC

\* cache.get answers (ok) or raises (~ok: caught, hit stays None); a hit
\* returns it, a miss awaits the wrapped function.
CacheGetReturn(c, ok) ==
    /\ ccall[c].pc = "get"
    /\ LET hit == IF ok THEN StoreGet(CallKey(c)) ELSE NoneVal IN
       ccall' = [ccall EXCEPT ![c] =
                   IF IsHit(hit)
                   THEN [@ EXCEPT !.pc = "done", !.result = hit,
                                  !.getFailed = ~ok]
                   ELSE [@ EXCEPT !.pc = "func", !.getFailed = ~ok]]
    /\ UNCHANGED store
    /\ UNCHANGED notC

\* The wrapped function returns; the wrapper awaits cache.set.
FuncReturn(c) ==
    /\ ccall[c].pc = "func"
    /\ ccall' = [ccall EXCEPT ![c] =
                   [@ EXCEPT !.pc = "set", !.invoked = @ + 1,
                             !.result = WrappedResult(ccall[c].arg)]]
    /\ UNCHANGED store
    /\ UNCHANGED notC

\* cache.set answers (ok) or raises (~ok: caught); the result is returned.
CacheSetReturn(c, ok) ==
    /\ ccall[c].pc = "set"
    /\ store' = [store EXCEPT ![CallKey(c)] =
                   SetEffect(ok, @, ccall[c].result)]
    /\ ccall' = [ccall EXCEPT ![c] =
                   [@ EXCEPT !.pc = "done", !.setFailed = ~ok]]
    /\ UNCHANGED notC

\* One second passes: entries whose time to live runs out are dropped.
Tick ==
    /\ \E k \in Keys : store[k].present
    /\ store' = [k \in Keys |->
                   IF store[k].present /\ store[k].ttl > 1
                   THEN [store[k] EXCEPT !.ttl = @ - 1]
                   ELSE Absent]
    /\ UNCHANGED ccall
    /\ UNCHANGED notC

\* cache.delete_pattern after a mutation.
DeletePattern(pattern) ==
    /\ store' = [k \in Keys |->
                   IF Matches(pattern, k) THEN Absent ELSE store[k]]
    /\ UNCHANGED ccall
    /\ UNCHANGED notC

\* A subscription webhook arriving while streams run.
PlanChange(u, subId, price) ==
    /\ HandleSubscriptionCreated(u, subId, price, StatusActive)
    /\ UNCHANGED <<lastResp, calls>>

(***************************************************************************)
(* OAuth token tables (twitch_controller.py, youtube_controller.py,        *)
(* twitch_irc.py, youtube_chat_client.py).  Every request works in its own *)
(* database session: the rows an UPDATE statement changes are those that   *)
(* match when the statement runs, and what a transaction wrote is seen by  *)
(* the others once it commits.                                             *)
(***************************************************************************)
Platforms == {"twitch", "youtube"}
CbSlots == {"cb1", "cb2"}

TokenRow(platform, user) ==
    [platform |-> platform, user |-> user, is_active |-> TRUE,
     access |-> "issued"]

RowIds == 1..Len(tokens)

\* WHERE user_id = :user AND is_active, on one table.
ActiveRows(platform, user) ==
    {i \in RowIds : /\ tokens[i].platform = platform
                    /\ tokens[i].user = user
                    /\ tokens[i].is_active}

\* UPDATE ... SET is_active = false on the given rows.
Deactivate(rows) ==
    [i \in RowIds |->
       IF i \in rows THEN [tokens[i] EXCEPT !.is_active = FALSE]
       ELSE tokens[i]]

IdleCb == [pc |-> "idle", platform |-> "twitch", user |-> NoUser,
           stale |-> {}]

InFlight == Cardinality({c \in CbSlots : tcb[c].pc = "updated"})

\* twitch_callback / youtube_callback up to the commit: the code was
\* exchanged and the UPDATE that deactivates the user's active rows ran.
CallbackUpdate(c, platform, user) ==
    /\ tcb[c].pc = "idle"
    /\ Len(tokens) + InFlight < MaxRows
    /\ tcb' = [tcb EXCEPT ![c] = [pc |-> "updated", platform |-> platform,
                                  user |-> user,
                                  stale |-> ActiveRows(platform, user)]]
    /\ UNCHANGED <<tokens, trf>>
    /\ UNCHANGED notT

\* The commit of the callback: the deactivations and the new active row
\* become visible together; a failed commit leaves the table as it was.
CallbackCommit(c, ok) ==
    /\ tcb[c].pc = "updated"
    /\ tokens' = IF ok
                 THEN Append(Deactivate(tcb[c].stale),
                             TokenRow(tcb[c].platform, tcb[c].user))
                 ELSE tokens
    /\ tcb' = [tcb EXCEPT ![c] = IdleCb]
    /\ UNCHANGED trf
    /\ UNCHANGED notT

\* revoke_twitch_token / youtube_revoke_token.
Revoke(platform, user) ==
    /\ ActiveRows(platform, user) # {}
    /\ tokens' = Deactivate(ActiveRows(platform, user))
    /\ UNCHANGED <<tcb, trf>>
    /\ UNCHANGED notT

\* ORDER BY created_at DESC ... first(): the newest of the rows.
Newest(rows) == CHOOSE i \in rows : \A j \in rows : j <= i

\* The rows TwitchIRCClient.refresh_token_if_needed selects from: the
\* user's active rows, or every active row when no user is given.
RefreshCandidates(target) ==
    {i \in RowIds : /\ tokens[i].platform = "twitch"
                    /\ tokens[i].is_active
                    /\ (target # NoUser => tokens[i].user = target)}

\* refresh_token_if_needed up to the call of the token endpoint, for a
\* token that expires soon: without a refresh token the row is deactivated.
TwitchRefreshBegin(target, hasRefreshToken) ==
    /\ trf.pc = "idle"
    /\ RefreshCandidates(target) # {}
    /\ LET row == Newest(RefreshCandidates(target)) IN
         IF hasRefreshToken
         THEN /\ trf' = [pc |-> "refreshing", row |-> row]
              /\ UNCHANGED tokens
         ELSE /\ tokens' = Deactivate({row})
              /\ UNCHANGED trf
    /\ UNCHANGED tcb
    /\ UNCHANGED notT

\* The token endpoint answered: the record is updated in place, or marked
\* inactive when the refresh failed.
TwitchRefreshReturn(ok) ==
    /\ trf.pc = "refreshing"
    /\ tokens' = IF ok
                 THEN [tokens EXCEPT ![trf.row].access = "refreshed"]
                 ELSE Deactivate({trf.row})
    /\ trf' = [pc |-> "idle", row |-> 0]
    /\ UNCHANGED tcb
    /\ UNCHANGED notT

\* YouTubeChatClient._save_refreshed_token: the select has no order, so
\* first() is any of the user's active rows.
SaveRefreshedToken(user) ==
    /\ \E rec \in ActiveRows("youtube", user) :
         tokens' = [tokens EXCEPT ![rec].access = "refreshed"]
    /\ UNCHANGED <<tcb, trf>>
    /\ UNCHANGED notT

(***************************************************************************)
(* YouTubeChatClient (youtube_chat_client.py).  A step ends where the      *)
(* coroutine is about to send its next request or to sleep.                *)
(***************************************************************************)
\* max_retries of _make_api_request
MaxRetries == 2

QuotaMessage == "YouTube API quota exceeded (10,000 units/day)"
NoChatMessage == "No live chat ID found"
ChatEndedMessage == "Live chat ended or unavailable"

\* What the provider answers to one request.
ApiResponses == {"ok", "quotaExceeded", "401", "429", "chatEnded", "500",
                 "network"}

\* YouTubeChatClient.__init__
InitClient == [pc |-> "idle", attempt |-> 0, is_connected |-> FALSE,
               stop_polling |-> FALSE, live_chat_id |-> FALSE,
               last_error |-> "None", disconnected |-> FALSE]

\* _handle_quota_exceeded
HandleQuotaExceeded(client) ==
    [client EXCEPT !.is_connected = FALSE, !.last_error = QuotaMessage,
                   !.stop_polling = TRUE]

ApiOutcome_AlwaysRetry(resp, attempt) ==
    CASE resp = "ok" -> "return"
      [] resp = "quotaExceeded" -> "quota"
      [] resp \in {"401", "429"} -> "retry"
      [] resp = "chatEnded" -> "http_ended"
      [] resp = "500" -> "http_error"
      [] resp = "network" ->
            IF attempt = MaxRetries THEN "error" ELSE "retry"

\* One pass of the loop of _make_api_request: what the attempt ends in.
ApiOutcome(resp, attempt) ==
    CASE resp = "ok" -> "return"
      [] resp = "quotaExceeded" -> "quota"
      [] resp \in {"401", "429"} ->
            IF attempt < MaxRetries THEN "retry" ELSE "http_error"
      [] resp = "chatEnded" -> "http_ended"
      [] resp = "500" -> "http_error"
      [] resp = "network" ->
            IF attempt = MaxRetries THEN "error" ELSE "retry"

\* The client after the attempt: only a quotaExceeded answer touches it.
AfterAttempt(client, outcome) ==
    IF outcome = "quota" THEN HandleQuotaExceeded(client) ELSE client

\* fetch_chat_messages on a chat that ended.
ChatEnded(client) ==
    [client EXCEPT !.is_connected = FALSE, !.last_error = ChatEndedMessage,
                   !.stop_polling = TRUE, !.live_chat_id = FALSE]

\* connect() past the probe: polling starts.
StartPolling(client) ==
    [client EXCEPT !.is_connected = TRUE, !.stop_polling = FALSE,
                   !.pc = "poll_fetch", !.attempt = 0]

\* youtube_service.start_connection_for_user: a new client, and connect()
\* up to its first request.
ConnectBegin(tokenOk) ==
    /\ yt.pc = "idle"
    /\ yt' = IF tokenOk
             THEN [InitClient EXCEPT !.pc = "identity"]
             ELSE [InitClient EXCEPT !.last_error = "No valid YouTube token"]
    /\ quotaLatched' = FALSE
    /\ UNCHANGED ysend
    /\ UNCHANGED notY

\* The request connect() or the poll loop is waiting to send is sent and
\* answered; the coroutine runs on to its next request or sleep.
ApiAttempt(resp, hasLive) ==
    /\ yt.pc \in {"identity", "broadcasts", "probe", "poll_fetch"}
    /\ yt.pc = "poll_fetch" => yt.live_chat_id
    /\ LET outcome == ApiOutcome(resp, yt.attempt)
           client == AfterAttempt(yt, outcome)
       IN  /\ yt' =
                IF outcome = "retry"
                THEN [client EXCEPT !.attempt = @ + 1]
                ELSE CASE yt.pc = "identity" ->
                            [client EXCEPT !.pc = "broadcasts", !.attempt = 0]
                       [] yt.pc = "broadcasts" ->
                            IF outcome = "return" /\ hasLive
                            THEN [client EXCEPT !.live_chat_id = TRUE,
                                                !.pc = "probe", !.attempt = 0]
                            ELSE [client EXCEPT !.last_error = NoChatMessage,
                                                !.pc = "idle", !.attempt = 0]
                       [] yt.pc = "probe" ->
                            IF outcome = "http_ended"
                            THEN [ChatEnded(client) EXCEPT !.pc = "idle",
                                                           !.attempt = 0]
                            ELSE IF ~client.live_chat_id
                            THEN [client EXCEPT !.pc = "idle", !.attempt = 0]
                            ELSE StartPolling(client)
                       [] yt.pc = "poll_fetch" ->
                            IF outcome = "http_ended"
                            THEN [ChatEnded(client) EXCEPT
                                     !.pc = "poll_sleep", !.attempt = 0]
                            ELSE [client EXCEPT !.pc = "poll_sleep",
                                                !.attempt = 0]
           /\ quotaLatched' = (quotaLatched \/ outcome = "quota")
    /\ UNCHANGED ysend
    /\ UNCHANGED notY

\* fetch_chat_messages of the poll loop without a chat id: no request.
PollFetchNoChat ==
    /\ yt.pc = "poll_fetch"
    /\ ~yt.live_chat_id
    /\ yt' = [yt EXCEPT !.pc = "poll_sleep"]
    /\ UNCHANGED <<ysend, quotaLatched>>
    /\ UNCHANGED notY

\* The sleep of the poll loop ends: while not self._stop_polling.
PollWake ==
    /\ yt.pc = "poll_sleep"
    /\ yt' = [yt EXCEPT !.pc = IF yt.stop_polling THEN "idle"
                               ELSE "poll_fetch"]
    /\ UNCHANGED <<ysend, quotaLatched>>
    /\ UNCHANGED notY

\* disconnect(); disconnected records that it ran on this client.
Disconnect ==
    /\ yt.is_connected \/ yt.live_chat_id \/ ~yt.stop_polling
    /\ yt' = [yt EXCEPT !.stop_polling = TRUE, !.is_connected = FALSE,
                        !.live_chat_id = FALSE, !.disconnected = TRUE]
    /\ UNCHANGED <<ysend, quotaLatched>>
    /\ UNCHANGED notY

\* send_youtube_message: the endpoint hands the message to a connected
\* client with a chat; send_message up to its first request.
SendBegin ==
    /\ ysend.pc = "idle"
    /\ yt.is_connected
    /\ yt.live_chat_id
    /\ ysend' = [pc |-> "sending", attempt |-> 0]
    /\ UNCHANGED <<yt, quotaLatched>>
    /\ UNCHANGED notY

\* The request of send_message is sent and answered.
SendAttempt(resp) ==
    /\ ysend.pc = "sending"
    /\ LET outcome == ApiOutcome(resp, ysend.attempt) IN
         /\ ysend' = IF outcome = "retry"
                     THEN [ysend EXCEPT !.attempt = @ + 1]
                     ELSE [pc |-> "idle", attempt |-> 0]
         /\ yt' = AfterAttempt(yt, outcome)
         /\ quotaLatched' = (quotaLatched \/ outcome = "quota")
    /\ UNCHANGED notY

(***************************************************************************)
(* Resolution clamping (broadcaster_service.py).                           *)
(***************************************************************************)
\* _QUALITY_ORDER
QualityOrder ==
    [q \in {"360p", "480p", "720p", "1080p", "1440p", "4K"} |->
       CASE q = "360p" -> 0 [] q = "480p" -> 1 [] q = "720p" -> 2
         [] q = "1080p" -> 3 [] q = "1440p" -> 4 [] q = "4K" -> 5]
Qualities == DOMAIN QualityOrder

\* Python truth of an optional string: None and "" are false.
Truthy(str) == str # NoneVal /\ str # ""

\* x or y
PyOr(x, y) == IF Truthy(x) THEN x ELSE y

ClampResolution_AsRequested(requested, max_quality) ==
    IF Truthy(requested) /\ requested \in Qualities THEN requested
    ELSE max_quality

\* _clamp_resolution
ClampResolution(requested, max_quality) ==
    LET m == IF max_quality \notin Qualities THEN "720p" ELSE max_quality IN
    IF ~Truthy(requested) \/ requested \notin Qualities THEN m
    ELSE IF QualityOrder[requested] <= QualityOrder[m] THEN requested
    ELSE m

\* A call of _clamp_resolution by itself.
ClampCall(requested, max_quality) ==
    /\ res' = [site |-> "clamp", requested |-> requested,
               default |-> NoneVal, max_quality |-> max_quality,
               effective |-> ClampResolution(requested, max_quality)]
    /\ UNCHANGED notR

\* start_broadcasting, from the plan limits to effective_resolution: the
\* resolution put in the payload for the worker.
EffectiveResolution(requested, default, plan) ==
    /\ LET limits == GetPlanLimits(plan)
           max_quality == DictGet(limits, "max_quality", "720p")
       IN  res' = [site |-> "start", requested |-> requested,
                   default |-> default, max_quality |-> max_quality,
                   effective |-> ClampResolution(PyOr(requested, default),
                                                 max_quality)]
    /\ UNCHANGED notR

(***************************************************************************)
(* The payment ledger: invoice webhooks (payment_service.py).              *)
(***************************************************************************)
TypePayment == "payment"
TypeFailed == "failed"
PaymentIntents == {"pi_1", "pi_2"}
InvoiceId == "in_1"

\* amount / 100 of an amount in cents: the units and the hundredths.
Major(cents) == [units |-> cents \div 100, hundredths |-> cents % 100]

\* The unique index on transactions.stripe_payment_intent_id, and the
\* column being NOT NULL: can a row with this id be inserted?
IntentInsertable(intent) ==
    /\ intent # NoneVal
    /\ \A i \in 1..Len(txns) : txns[i].stripe_payment_intent_id # intent

\* The Transaction row the handlers build.
TransactionRow(owner, intent, cents, type) ==
    [subscription |-> owner, stripe_payment_intent_id |-> intent,
     amount |-> Major(cents), transaction_type |-> type]

\* stripe_webhook around _handle_payment_succeeded: an invoice of an unknown
\* subscription is skipped; a failed commit is answered with 500.
HandlePaymentSucceeded(subId, intent, amountPaid) ==
    /\ LET owner == SubOwner(subId) IN
         IF owner = NoUser
         THEN /\ hookResp' = 200
              /\ UNCHANGED txns
         ELSE IF IntentInsertable(intent)
         THEN /\ txns' = Append(txns, TransactionRow(owner, intent,
                                                     amountPaid, TypePayment))
              /\ hookResp' = 200
         ELSE /\ hookResp' = 500
              /\ UNCHANGED txns
    /\ UNCHANGED <<subs, limitsResp>>
    /\ UNCHANGED notPL

\* stripe_webhook around _handle_payment_failed: the status change and the
\* row are committed together.
HandlePaymentFailed(subId, intent, amountDue) ==
    /\ LET owner == SubOwner(subId)
           pi == IF intent # NoneVal THEN intent ELSE "failed_" \o InvoiceId
       IN  IF owner = NoUser
           THEN /\ hookResp' = 200
                /\ UNCHANGED <<txns, subs>>
           ELSE IF IntentInsertable(pi)
           THEN /\ subs' = [subs EXCEPT ![owner].status = StatusPastDue]
                /\ txns' = Append(txns, TransactionRow(owner, pi, amountDue,
                                                       TypeFailed))
                /\ hookResp' = 200
           ELSE /\ hookResp' = 500
                /\ UNCHANGED <<txns, subs>>
    /\ UNCHANGED limitsResp
    /\ UNCHANGED notPL

\* A checkout: the processor reports the user's paid subscription.
Subscribe(u, subId) ==
    /\ subs[u] = NoSub
    /\ HandleSubscriptionCreated(u, subId, PricePro, StatusActive)

(***************************************************************************)
(* PaymentService.cancel_subscription (payment_service.py).                *)
(***************************************************************************)
CancelRefused_Never(sub) == FALSE

\* if subscription.plan == SubscriptionPlan.FREE.value
CancelRefused(sub) == sub.plan = PlanFree

\* cancel_subscription; stripeOk: whether the processor accepts the call.
CancelSubscription(u, cancelImmediately, stripeOk) ==
    /\ IF subs[u] = NoSub
       THEN /\ cancelResp' = 404
            /\ UNCHANGED <<subs, cancelInfo>>
       ELSE IF CancelRefused(subs[u])
       THEN /\ cancelResp' = 400
            /\ UNCHANGED <<subs, cancelInfo>>
       ELSE IF subs[u].stripe_subscription_id = NoSubId
       THEN /\ cancelResp' = 200
            /\ UNCHANGED <<subs, cancelInfo>>
       ELSE IF ~stripeOk
       THEN /\ cancelResp' = 500
            /\ UNCHANGED <<subs, cancelInfo>>
       ELSE IF cancelImmediately
       THEN /\ subs' = [subs EXCEPT ![u].status = StatusCanceled]
            /\ cancelInfo' = [cancelInfo EXCEPT ![u].canceled_at = TRUE]
            /\ cancelResp' = 200
       ELSE /\ cancelInfo' =
                [cancelInfo EXCEPT ![u].cancel_at_period_end = TRUE]
            /\ cancelResp' = 200
            /\ UNCHANGED subs
    /\ UNCHANGED limitsResp
    /\ UNCHANGED notPK

\* The processor reports a subscription of the user at some price.
Checkout(u, subId, price) ==
    HandleSubscriptionCreated(u, subId, price, StatusActive)

(***************************************************************************)
(* RtmpEndpointService: saved restreaming destinations.  Its module is not *)
(* among the sources; the operations follow the specification's section    *)
(* 4.10 and the service's tests.                                           *)
(***************************************************************************)
EndpointIds == {"r1", "r2", "r3"}
StreamKeys == {"k1", "k2"}
NoEndpoint == [title |-> "none", stream_key |-> "none", user_id |-> NoUser]

KeyExists == "Stream key already exists"
TitleExists == "Title already exists"

StreamKeyTaken_SameUser(key, u, except) ==
    \E r \in EndpointIds \ {except} :
        endpoints[r].stream_key = key /\ endpoints[r].user_id = u

\* stream_key is unique over the whole table.
StreamKeyTaken(key, u, except) ==
    \E r \in EndpointIds \ {except} : endpoints[r].stream_key = key

\* title is unique over the whole table.
EndpointTitleTaken(title, except) ==
    \E r \in EndpointIds \ {except} : endpoints[r].title = title

\* The errors a commit can raise: the database names the constraint it
\* found violated, whichever it checked first; commitOk: no other failure.
CommitErrors(title, key, u, except, commitOk) ==
    (IF StreamKeyTaken(key, u, except) THEN {KeyExists} ELSE {})
    \cup (IF EndpointTitleTaken(title, except) THEN {TitleExists} ELSE {})
    \cup (IF commitOk THEN {} ELSE {"raised"})

\* create_rtmp_endpoints: a constraint violation is mapped to its domain
\* error; on any failure the transaction is rolled back.
CreateRtmpEndpoints(r, u, title, key, commitOk) ==
    /\ endpoints[r] = NoEndpoint
    /\ IF CommitErrors(title, key, u, r, commitOk) = {}
       THEN /\ endpoints' = [endpoints EXCEPT ![r] =
                   [title |-> title, stream_key |-> key, user_id |-> u]]
            /\ rtmpResp' = "ok"
       ELSE /\ rtmpResp' \in CommitErrors(title, key, u, r, commitOk)
            /\ UNCHANGED endpoints
    /\ UNCHANGED notM

\* update_rtmp_endpoints: a partial update; the sentinel when the row does
\* not exist; a failed commit is rolled back and re-raised.
UpdateRtmpEndpoints(r, title, key, commitOk) ==
    /\ IF endpoints[r] = NoEndpoint
       THEN /\ rtmpResp' = "sentinel"
            /\ UNCHANGED endpoints
       ELSE IF CommitErrors(title, key, endpoints[r].user_id, r, commitOk) = {}
       THEN /\ endpoints' = [endpoints EXCEPT ![r].title = title,
                                              ![r].stream_key = key]
            /\ rtmpResp' = "ok"
       ELSE /\ rtmpResp' = "raised"
            /\ UNCHANGED endpoints
    /\ UNCHANGED notM

\* delete_rtmp_endpoints: by the owning user; the sentinel otherwise.
DeleteRtmpEndpoints(r, u, commitOk) ==
    /\ IF endpoints[r] = NoEndpoint \/ endpoints[r].user_id # u
       THEN /\ rtmpResp' = "sentinel"
            /\ UNCHANGED endpoints
       ELSE IF commitOk
       THEN /\ endpoints' = [endpoints EXCEPT ![r] = NoEndpoint]
            /\ rtmpResp' = "ok"
       ELSE /\ rtmpResp' = "raised"
            /\ UNCHANGED endpoints
    /\ UNCHANGED notM

(***************************************************************************)
(* TwitchService and YouTubeService: the per-user connection registries    *)
(* (twitch_service.py, youtube_service.py).                                *)
(***************************************************************************)
StopCalls == {"k1", "k2"}
NoClient == 0
IdleStopCall == [pc |-> "idle", platform |-> "none", user |-> NoUser,
             client |-> NoClient]

\* self._connections.get(user_id)
RegistryGet(reg, u) ==
    IF \E pair \in reg : pair[1] = u
    THEN (CHOOSE pair \in reg : pair[1] = u)[2]
    ELSE NoClient

\* self._connections[user_id] = client
RegistrySet(reg, u, client) ==
    {pair \in reg : pair[1] # u} \cup {<<u, client>>}

\* self._connections.pop(user_id, None)
RegistryPop(reg, u) == {pair \in reg : pair[1] # u}

Registered_Never(reg, u) == FALSE

\* if existing: / if user_id in self._connections:
Registered(reg, u) == RegistryGet(reg, u) # NoClient

\* start_connection_for_user: no await, one step of the event loop.
StartConnectionForUser(p, u) ==
    /\ IF Registered(registry[p], u)
       THEN UNCHANGED <<registry, clientsCreated, tasksStarted>>
       ELSE /\ clientsCreated < MaxClients
            /\ tasksStarted < MaxTasks
            /\ clientsCreated' = clientsCreated + 1
            /\ registry' = [registry EXCEPT ![p] =
                               RegistrySet(@, u, clientsCreated + 1)]
            /\ tasksStarted' = tasksStarted + 1
    /\ UNCHANGED stops
    /\ UNCHANGED notG

\* YouTubeService.start_with_chat_id: reuses the registered client or makes
\* one, and starts a connect task on it either way.
StartWithChatId(u) ==
    /\ tasksStarted < MaxTasks
    /\ IF RegistryGet(registry["youtube"], u) # NoClient
       THEN UNCHANGED <<registry, clientsCreated>>
       ELSE /\ clientsCreated < MaxClients
            /\ clientsCreated' = clientsCreated + 1
            /\ registry' = [registry EXCEPT !["youtube"] =
                               RegistrySet(@, u, clientsCreated + 1)]
    /\ tasksStarted' = tasksStarted + 1
    /\ UNCHANGED stops
    /\ UNCHANGED notG

\* stop_connection_for_user up to "await client.disconnect()".
StopConnectionBegin(k, p, u) ==
    /\ stops[k].pc = "idle"
    /\ RegistryGet(registry[p], u) # NoClient
    /\ stops' = [stops EXCEPT ![k] =
                    [pc |-> "disconnecting", platform |-> p, user |-> u,
                     client |-> RegistryGet(registry[p], u)]]
    /\ UNCHANGED <<registry, clientsCreated, tasksStarted>>
    /\ UNCHANGED notG

\* stop_connection_for_user after the await: the pop by user id.
StopConnectionReturn(k) ==
    /\ stops[k].pc = "disconnecting"
    /\ registry' = [registry EXCEPT ![stops[k].platform] =
                       RegistryPop(@, stops[k].user)]
    /\ stops' = [stops EXCEPT ![k] = IdleStopCall]
    /\ UNCHANGED <<clientsCreated, tasksStarted>>
    /\ UNCHANGED notG

(***************************************************************************)
(* ChatGatewayClient (chat_gateway_client.py).                             *)
(***************************************************************************)
\* How a call ended: failed when the request or raise_for_status raised
\* inside the client, raised when the exception reached the caller.
GwOutcome(op, platform, user, failed, raised) ==
    [op |-> op, platform |-> platform, user |-> user, failed |-> failed,
     raised |-> raised]

\* connect_twitch, connect_youtube: except Exception: log, raise.
ConnectRaises(failed) == failed

\* disconnect_twitch, disconnect_youtube: except Exception: log.
DisconnectRaises(failed) == FALSE

\* forward_message: except Exception: log.
ForwardRaises(failed) == FALSE

GatewayConnect(p, u, failed) ==
    /\ sessions' = IF failed THEN sessions
                   ELSE [sessions EXCEPT ![p] = @ \cup {u}]
    /\ gwLast' = GwOutcome("connect", p, u, failed, ConnectRaises(failed))
    /\ UNCHANGED notW

GatewayDisconnect(p, u, failed) ==
    /\ sessions' = IF failed THEN sessions
                   ELSE [sessions EXCEPT ![p] = @ \ {u}]
    /\ gwLast' = GwOutcome("disconnect", p, u, failed,
                           DisconnectRaises(failed))
    /\ UNCHANGED notW

ForwardMessage(p, u, failed) ==
    /\ gwLast' = GwOutcome("forward", p, u, failed, ForwardRaises(failed))
    /\ UNCHANGED sessions
    /\ UNCHANGED notW

(***************************************************************************)
(* The get_current_user dependencies (user_controller.py,                  *)
(* payment_controller.py).                                                 *)
(***************************************************************************)
KeycloakIds == {"kc1", "kc2", "kc3"}
\* What validate_token does with a token: it raises ("invalid"), or returns
\* claims with a subject, or claims without one (NoneVal).
TokenKinds == KeycloakIds \cup {"invalid", NoneVal}
NoToken == "-"
\* An Authorization header: absent, or a scheme and a token.
NoHeader == [scheme |-> NoneVal, token |-> NoToken]
Headers ==
    {NoHeader} \cup [scheme : {"Bearer", "Basic"}, token : TokenKinds]
AuthVariants == {"users", "payments"}

\* The result of the body of a try block: a returned user, a raised
\* HTTPException with its status, or another exception.
Returned(user) == [kind |-> "return", code |-> 200, user |-> user]
RaisedHTTP(code) == [kind |-> "http", code |-> code, user |-> NoneVal]
RaisedOther == [kind |-> "exception", code |-> 0, user |-> NoneVal]

\* The validation and the lookup both dependencies make on a token;
\* missing: the status raised when no row matches the subject.
ValidateAndLoad(token, missing) ==
    IF token = "invalid" THEN RaisedOther
    ELSE IF token = NoneVal THEN RaisedHTTP(401)
    ELSE IF token \notin userRows THEN RaisedHTTP(missing)
    ELSE Returned(token)

\* user_controller.get_current_user: "except Exception" also catches the
\* HTTPException instances raised inside the try block.
UsersGetCurrentUser(header) ==
    IF header.scheme # "Bearer" THEN RaisedHTTP(401)
    ELSE LET body == ValidateAndLoad(header.token, 404) IN
         IF body.kind = "return" THEN body ELSE RaisedHTTP(401)

\* payment_controller.get_current_user: the cookie is the fallback of the
\* header, and every failure is normalized to 401.
PaymentsGetCurrentUser(header, cookie) ==
    LET token == IF header.scheme = "Bearer" THEN header.token ELSE cookie
        body == IF token = NoToken THEN RaisedHTTP(401)
                ELSE ValidateAndLoad(token, 401)
    IN IF body.kind = "return" THEN body ELSE RaisedHTTP(401)

NoAuthResp ==
    [variant |-> "none", token |-> NoToken, rowExists |-> FALSE,
     code |-> 0, user |-> NoneVal]

\* A request through either dependency; token: the bearer token the request
\* supplied, NoToken when it supplied none.
GetCurrentUser(variant, header, cookie) ==
    LET out == IF variant = "users" THEN UsersGetCurrentUser(header)
               ELSE PaymentsGetCurrentUser(header, cookie)
        token == IF header.scheme = "Bearer" THEN header.token
                 ELSE IF variant = "payments" THEN cookie ELSE NoToken
    IN
    /\ authResp' = [variant |-> variant, token |-> token,
                    rowExists |-> token \in userRows,
                    code |-> out.code, user |-> out.user]
    /\ UNCHANGED userRows
    /\ UNCHANGED notA

\* The local row of an identity is created, or removed.
CreateUserRow(k) ==
    /\ k \notin userRows
    /\ userRows' = userRows \cup {k}
    /\ UNCHANGED authResp
    /\ UNCHANGED notA
DeleteUserRow(k) ==
    /\ k \in userRows
    /\ userRows' = userRows \ {k}
    /\ UNCHANGED authResp
    /\ UNCHANGED notA

(***************************************************************************)
(* GET /api/users and GET /api/users/{user_id} (user_controller.py).       *)
(***************************************************************************)
Roles == {"admin", "viewer"}

\* The answer to an authenticated caller with the given roles; executed:
\* whether the select on the users table ran.
UsersResp(endpoint, roles, code, executed) ==
    [endpoint |-> endpoint, roles |-> roles, code |-> code,
     executed |-> executed]

\* get_users: depends on get_current_user only, then runs the select.
GetUsers(roles) ==
    /\ usersResp' = UsersResp("list", roles, 200, TRUE)
    /\ UNCHANGED notU

\* get_user_by_id: depends on get_current_user only, runs the select and
\* answers 404 when no row has the id.
GetUserById(roles, id) ==
    /\ usersResp' = UsersResp("by_id", roles,
                              IF id \in userRows THEN 200 ELSE 404, TRUE)
    /\ UNCHANGED notU

(***************************************************************************)
(* scripts/grant_unlimited_access.py.                                      *)
(***************************************************************************)
\* grant_unlimited_access: sets the flag of the user with the given email.
GrantUnlimitedAccess(u) ==
    /\ unlimited' = [unlimited EXCEPT ![u] = TRUE]
    /\ UNCHANGED notX

\* The resolution start_broadcasting computes for a user with a
\* subscription: the clamp is made with the limits of the user's plan.
StartResolution(u, requested, default) ==
    /\ subs[u] # NoSub
    /\ EffectiveResolution(requested, default, subs[u].plan)

(***************************************************************************)
(* The persistent stream tracking (chat_context.py) and the cleanup sweep  *)
(* (stream_cleanup_service.py).                                            *)
(***************************************************************************)
PStreams == {"st1", "st2"}
UserOrder == <<"u1", "u2">>

\* start: the sets when the sweep began; failed, passed: the (user, stream)
\* pairs whose fetch_status raised, or returned.
IdleSweep == [pc |-> "idle", users |-> <<>>, user |-> NoUser, streams |-> {},
              start |-> [u \in Users |-> {}], failed |-> {}, passed |-> {}]

\* add_user_stream: sadd, expire, and the reverse pointer.
AddUserStream(u, t) ==
    /\ reverse[t] = NoUser /\ \A v \in Users : t \notin pset[v]
    /\ pset' = [pset EXCEPT ![u] = @ \cup {t}]
    /\ reverse' = [reverse EXCEPT ![t] = u]
    /\ UNCHANGED sweep
    /\ UNCHANGED notS

\* The reverse pointer's own TTL runs out; the set's TTL was re-applied by a
\* later add.
ReversePointerExpires(t) ==
    /\ reverse[t] # NoUser
    /\ sweep.pc \in {"idle", "done"}
    /\ reverse' = [reverse EXCEPT ![t] = NoUser]
    /\ UNCHANGED <<pset, sweep>>
    /\ UNCHANGED notS

\* remove_user_stream: the owner is looked up through the reverse pointer;
\* getOk, writeOk: whether the store calls succeed (a failed call returns
\* its default and changes nothing).
RemoveUserStream(t, getOk, writeOk) ==
    LET user_id == IF getOk THEN reverse[t] ELSE NoUser IN
    /\ pset' = IF user_id # NoUser /\ writeOk
               THEN [pset EXCEPT ![user_id] = @ \ {t}] ELSE pset
    /\ reverse' = IF writeOk THEN [reverse EXCEPT ![t] = NoUser] ELSE reverse

\* cleanup_stale_streams: the users are selected.
SweepBegin ==
    /\ sweep.pc \in {"idle", "done"}
    /\ sweep' = [IdleSweep EXCEPT !.pc = "users", !.users = UserOrder,
                                  !.start = pset]
    /\ UNCHANGED <<pset, reverse>>
    /\ UNCHANGED notS

\* for user in users: stream_ids = await get_user_streams(user_id); after
\* the last user the sweep is completed.
SweepNextUser(getOk) ==
    /\ sweep.pc = "users"
    /\ IF sweep.users = <<>>
       THEN sweep' = [sweep EXCEPT !.pc = "done"]
       ELSE LET stream_ids == IF getOk THEN pset[Head(sweep.users)] ELSE {}
            IN sweep' = [sweep EXCEPT
                   !.user = Head(sweep.users), !.users = Tail(sweep.users),
                   !.streams = stream_ids,
                   !.pc = IF stream_ids = {} THEN "users" ELSE "streams"]
    /\ UNCHANGED <<pset, reverse>>
    /\ UNCHANGED notS

\* for stream_id in stream_ids: fetch_status, and remove_user_stream when
\* it raised.
SweepStream(t, fetchOk, getOk, writeOk) ==
    /\ sweep.pc = "streams"
    /\ t \in sweep.streams
    /\ IF fetchOk
       THEN /\ UNCHANGED <<pset, reverse>>
            /\ sweep' = [sweep EXCEPT
                   !.streams = @ \ {t},
                   !.passed = @ \cup {<<sweep.user, t>>},
                   !.pc = IF sweep.streams = {t} THEN "users" ELSE "streams"]
       ELSE /\ RemoveUserStream(t, getOk, writeOk)
            /\ sweep' = [sweep EXCEPT
                   !.streams = @ \ {t},
                   !.failed = @ \cup {<<sweep.user, t>>},
                   !.pc = IF sweep.streams = {t} THEN "users" ELSE "streams"]
    /\ UNCHANGED notS

(***************************************************************************)
(* YouTube chat polling: the connect tasks of YouTubeService and the poll  *)
(* loop of YouTubeChatClient (youtube_service.py, youtube_chat_client.py). *)
(* A message is named by its read position: the n-th message any poll      *)
(* returned for the user.  Messages are the ones the loop forwards (with   *)
(* text, from another channel).                                            *)
(***************************************************************************)
PollTasks == {"t1", "t2"}
IdlePoller == [pc |-> "idle", user |-> NoUser, client |-> NoClient,
               batch |-> <<>>]

\* The read positions first+1 .. first+n, in order.
Positions(first, n) == [i \in 1..n |-> first + i]

\* asyncio.create_task(client.connect...()): the task exists, its coroutine
\* has not reached the poll loop yet.
CreatePollTask(t, u, c) ==
    pollers' = [pollers EXCEPT ![t] =
                   [pc |-> "connecting", user |-> u, client |-> c,
                    batch |-> <<>>]]

\* The tasks created on client c, and whether all of them have ended
\* (connect returned without polling, or the poll loop was left).
TasksOn(c) == {t \in PollTasks : pollers[t].client = c}
ClientEnded(c) ==
    /\ TasksOn(c) # {}
    /\ \A t \in TasksOn(c) : pollers[t].pc = "ended"

\* YouTubeService.start_connection_for_user: a registered user returns at
\* once, else a client is registered with its connect task.
PollStartConnectionForUser(t, u) ==
    /\ IF Registered(pollRegistry, u)
       THEN /\ lastStart' =
                 IF ClientEnded(RegistryGet(pollRegistry, u))
                 THEN "returned_ended" ELSE "returned"
            /\ UNCHANGED <<pollRegistry, pollClients, pollers>>
       ELSE /\ pollers[t].pc = "idle"
            /\ pollClients < MaxClients
            /\ pollClients' = pollClients + 1
            /\ pollRegistry' = RegistrySet(pollRegistry, u, pollClients + 1)
            /\ CreatePollTask(t, u, pollClients + 1)
            /\ lastStart' = "began"
    /\ UNCHANGED <<stopPolling, polled, forwarded>>
    /\ UNCHANGED notO

\* YouTubeService.start_with_chat_id with its connect task: the registered
\* client is reused, and a task is created on it in either case.
PollStartWithChatId(t, u) ==
    /\ pollers[t].pc = "idle"
    /\ IF RegistryGet(pollRegistry, u) # NoClient
       THEN /\ CreatePollTask(t, u, RegistryGet(pollRegistry, u))
            /\ UNCHANGED <<pollRegistry, pollClients>>
       ELSE /\ pollClients < MaxClients
            /\ pollClients' = pollClients + 1
            /\ pollRegistry' = RegistrySet(pollRegistry, u, pollClients + 1)
            /\ CreatePollTask(t, u, pollClients + 1)
    /\ UNCHANGED <<stopPolling, polled, forwarded>>
    /\ UNCHANGED lastStart
    /\ UNCHANGED notO

\* connect / connect_with_known_chat_id up to the call of _poll_messages:
\* _stop_polling is cleared; an exception or a missing live chat ends the
\* task.
PollConnect(t, ok) ==
    /\ pollers[t].pc = "connecting"
    /\ IF ok
       THEN /\ stopPolling' = [stopPolling EXCEPT ![pollers[t].client] = FALSE]
            /\ pollers' = [pollers EXCEPT ![t].pc = "loop"]
       ELSE /\ pollers' = [pollers EXCEPT ![t].pc = "ended"]
            /\ UNCHANGED stopPolling
    /\ UNCHANGED <<pollRegistry, pollClients, polled, forwarded>>
    /\ UNCHANGED lastStart
    /\ UNCHANGED notO

\* _poll_messages: the loop test and one fetch_chat_messages.  n messages
\* come back, in wire order; a failed fetch sleeps and tests again.
PollFetch(t, n, ok) ==
    /\ pollers[t].pc = "loop"
    /\ IF stopPolling[pollers[t].client]
       THEN /\ pollers' = [pollers EXCEPT ![t].pc = "ended"]
            /\ UNCHANGED polled
       ELSE IF ok /\ n > 0
       THEN /\ polled[pollers[t].user] + n <= MaxPolled
            /\ polled' = [polled EXCEPT ![pollers[t].user] = @ + n]
            /\ pollers' = [pollers EXCEPT
                              ![t].pc = "forwarding",
                              ![t].batch =
                                  Positions(polled[pollers[t].user], n)]
       ELSE UNCHANGED <<pollers, polled>>
    /\ UNCHANGED <<pollRegistry, pollClients, stopPolling, forwarded>>
    /\ UNCHANGED lastStart
    /\ UNCHANGED notO

\* _poll_messages: one "await chat_gateway_client.forward_message" of the
\* for loop.  delivered is whether the gateway took the message
\* (forward_message does not raise either way).  After the last message
\* the task sleeps and tests the loop condition again.
PollForward(t, delivered) ==
    /\ pollers[t].pc = "forwarding"
    /\ forwarded' = [forwarded EXCEPT ![pollers[t].user] =
                        IF delivered THEN Append(@, Head(pollers[t].batch))
                        ELSE @]
    /\ pollers' = [pollers EXCEPT
                      ![t].batch = Tail(@),
                      ![t].pc = IF Len(pollers[t].batch) = 1
                                THEN "loop" ELSE "forwarding"]
    /\ UNCHANGED <<pollRegistry, pollClients, stopPolling, polled>>
    /\ UNCHANGED lastStart
    /\ UNCHANGED notO

\* YouTubeService.stop_connection_for_user: disconnect sets _stop_polling
\* and the client leaves the registry.
PollStopConnectionForUser(u) ==
    /\ RegistryGet(pollRegistry, u) # NoClient
    /\ stopPolling' = [stopPolling EXCEPT
                          ![RegistryGet(pollRegistry, u)] = TRUE]
    /\ pollRegistry' = RegistryPop(pollRegistry, u)
    /\ UNCHANGED <<pollClients, pollers, polled, forwarded>>
    /\ UNCHANGED lastStart
    /\ UNCHANGED notO

(***************************************************************************)
(* RedisCache: the client wrapper and its operations (redis_config.py).    *)
(***************************************************************************)
RedisOps == {"get", "set", "delete", "delete_pattern", "health_check",
             "sadd", "srem", "smembers", "scard", "expire"}
RKeys == {"k", "s"}
\* What a call passes besides the key: a value to pickle, a set member, or
\* a key pattern.
RArgs == {"v", "unpicklable", "m1", "m2", "k*", "*"}
RedisFaults == {"none", "ConnectionError"}

\* Python values, tagged by type.
PyNone == <<"None">>
PyBool(b) == <<"bool", b>>
PyInt(n) == <<"int", n>>
PySet(members) == <<"set", members>>
PyObj(v) == <<"object", v>>

NoEntry == [type |-> "none", val |-> NoneVal, members |-> {}]
NoRedisResp == [op |-> "none", clientSet |-> FALSE, error |-> "none",
                outcome |-> "none", value |-> PyNone, storeCalls |-> 0]

\* KEYS pattern
RedisKeysMatching(pattern, data) ==
    {k \in RKeys : /\ data[k].type # "none"
                    /\ (pattern = "*" \/ (pattern = "k*" /\ k = "k"))}

\* The server's answer to the command behind op: the error or the value,
\* and the data afterwards.  A set command on a string key, and GET on a
\* set key, are WRONGTYPE errors.
StoreReply(op, key, arg, data) ==
    LET e == data[key]
        ok(value, after) == [error |-> "none", value |-> value, data |-> after]
        wrong == [error |-> "WRONGTYPE", value |-> PyNone, data |-> data]
    IN
    CASE op = "get" ->
           IF e.type = "set" THEN wrong
           ELSE IF e.type = "none" THEN ok(PyNone, data)
           ELSE ok(PyObj(e.val), data)
      [] op = "set" ->
           ok(PyBool(TRUE),
              [data EXCEPT ![key] = [type |-> "string", val |-> arg,
                                     members |-> {}]])
      [] op = "delete" -> ok(PyBool(TRUE), [data EXCEPT ![key] = NoEntry])
      [] op = "delete_pattern" ->
           ok(PyBool(TRUE),
              [k \in RKeys |-> IF k \in RedisKeysMatching(arg, data)
                               THEN NoEntry ELSE data[k]])
      [] op = "health_check" -> ok(PyBool(TRUE), data)
      [] op = "sadd" ->
           IF e.type = "string" THEN wrong
           ELSE ok(PyInt(IF arg \in e.members THEN 0 ELSE 1),
                   [data EXCEPT ![key] = [type |-> "set", val |-> NoneVal,
                                          members |-> e.members \cup {arg}]])
      [] op = "srem" ->
           IF e.type = "string" THEN wrong
           ELSE ok(PyInt(IF arg \in e.members THEN 1 ELSE 0),
                   [data EXCEPT ![key] =
                       IF e.members \ {arg} = {} THEN NoEntry
                       ELSE [e EXCEPT !.members = @ \ {arg}]])
      [] op = "smembers" ->
           IF e.type = "string" THEN wrong ELSE ok(PySet(e.members), data)
      [] op = "scard" ->
           IF e.type = "string" THEN wrong
           ELSE ok(PyInt(Cardinality(e.members)), data)
      [] op = "expire" -> ok(PyBool(e.type # "none"), data)

\* "if not self.redis_client: return ..."
NotConnectedResult(op) ==
    CASE op = "get" -> PyNone
      [] op \in {"set", "delete", "delete_pattern", "health_check",
                 "expire"} -> PyBool(FALSE)
      [] op \in {"sadd", "srem", "scard"} -> PyInt(0)
      [] op = "smembers" -> PySet({})

\* "except Exception ...: return ..."
ExceptResult(op) ==
    CASE op = "get" -> PyNone
      [] op \in {"set", "delete", "delete_pattern", "health_check",
                 "expire"} -> PyBool(FALSE)
      [] op \in {"sadd", "srem", "scard"} -> PyInt(0)
      [] op = "smembers" -> PySet({})

Catches_RedisErrors(error) == error \in {"ConnectionError", "WRONGTYPE"}

\* "except Exception": every error of the try body is caught.
Catches(error) == error \in {"ConnectionError", "WRONGTYPE", "PickleError"}

\* The arguments an operation is called with.
RedisArgOk(op, arg) ==
    CASE op = "set" -> arg \in {"v", "unpicklable"}
      [] op \in {"sadd", "srem"} -> arg \in {"m1", "m2"}
      [] op = "delete_pattern" -> arg \in {"k*", "*"}
      [] OTHER -> arg = "v"

\* One RedisCache operation.  fault is what the connection does to the
\* store call; pickle.dumps runs inside the try of set, before the call.
RedisCall(op, key, arg, fault) ==
    /\ RedisArgOk(op, arg)
    /\ IF ~redisClient
       THEN /\ redisResp' = [op |-> op, clientSet |-> FALSE,
                             error |-> "none", outcome |-> "returned",
                             value |-> NotConnectedResult(op),
                             storeCalls |-> 0]
            /\ UNCHANGED redisData
       ELSE LET reply == StoreReply(op, key, arg, redisData)
                pickled == ~(op = "set" /\ arg = "unpicklable")
                error == IF ~pickled THEN "PickleError"
                         ELSE IF fault # "none" THEN fault
                         ELSE reply.error
            IN
            /\ redisData' = IF error = "none" THEN reply.data ELSE redisData
            /\ redisResp' =
                 [op |-> op, clientSet |-> TRUE, error |-> error,
                  outcome |-> IF error = "none" \/ Catches(error)
                              THEN "returned" ELSE "raised",
                  value |-> IF error = "none" THEN reply.value
                            ELSE IF Catches(error) THEN ExceptResult(op)
                            ELSE PyNone,
                  storeCalls |-> IF pickled THEN 1 ELSE 0]
    /\ UNCHANGED <<redisClient, redisConn>>
    /\ UNCHANGED notD

\* connect(): returns at once when the client is set; otherwise makes the
\* client and awaits the ping.
RedisConnectBegin ==
    /\ redisConn = "idle"
    /\ IF redisClient
       THEN /\ redisResp' = [NoRedisResp EXCEPT !.op = "connect",
                                                !.clientSet = TRUE,
                                                !.outcome = "returned"]
            /\ UNCHANGED <<redisClient, redisConn>>
       ELSE /\ redisClient' = TRUE
            /\ redisConn' = "pinging"
            /\ UNCHANGED redisResp
    /\ UNCHANGED redisData
    /\ UNCHANGED notD

\* connect(): the ping answers, or it fails and the client is dropped.
RedisConnectReturn(fault) ==
    /\ redisConn = "pinging"
    /\ redisConn' = "idle"
    /\ redisClient' = (fault = "none")
    /\ redisResp' = [op |-> "connect", clientSet |-> FALSE,
                     error |-> fault,
                     outcome |-> IF fault = "none" \/ Catches(fault)
                                 THEN "returned" ELSE "raised",
                     value |-> PyNone, storeCalls |-> 1]
    /\ UNCHANGED redisData
    /\ UNCHANGED notD

(***************************************************************************)
(* TwitchIRCClient: the connect loop and the token refresh (twitch_irc.py). *)
(* One client and the token rows of its user.  An expiry is known by where *)
(* it lies: in the past, within the next 5 minutes, or later.              *)
(***************************************************************************)
IrcTokens == {"tok1", "tok2"}
EmptyToken == ""
Expiries == {"expired", "soon", "later"}

\* TwitchIRCClient.__init__; delay and cause describe the last sleep.
InitIrc == [pc |-> "start", token |-> NoneVal, is_connected |-> FALSE,
            delay |-> 0, cause |-> "none", stopped |-> FALSE]
NoIrcRef == [row |-> 0, before |-> NoneVal]

IrcRowIds == 1..Len(ircRows)

\* WHERE user_id = :user AND is_active ORDER BY created_at DESC
IrcActiveRows == {i \in IrcRowIds : ircRows[i].is_active}

\* ... AND expires_at > now()
IrcValidRows == {i \in IrcActiveRows : ircRows[i].expires_at # "expired"}

\* token_record.expires_at <= now + 5 minutes
ExpiresSoon(row) == row.expires_at \in {"expired", "soon"}

\* "if not self.token"
NoTokenAvailable(token) == token = NoneVal \/ token = EmptyToken

\* The delay of the "except Exception" branch of connect().
RetryDelay == 5
\* The delay of the "if not self.token" branch of connect().
NoTokenDelay == 30

\* The except branch of connect(): disconnected, then sleep(5).
IrcExcept(error) ==
    [irc EXCEPT !.pc = "sleeping", !.is_connected = FALSE,
                !.delay = RetryDelay, !.cause = error]

\* The OAuth callback stores a token: the user's active rows become
\* inactive and the new row is active.
IrcLogin(access, hasRefresh) ==
    /\ Len(ircRows) < MaxIrcRows
    /\ ircRows' = Append([i \in IrcRowIds |->
                             [ircRows[i] EXCEPT !.is_active = FALSE]],
                         [is_active |-> TRUE, access_token |-> access,
                          expires_at |-> "later",
                          refresh_token |-> hasRefresh])
    /\ UNCHANGED <<irc, ircRef>>
    /\ UNCHANGED notI

\* Time passes: the expiry of a row comes nearer.
IrcClock(i) ==
    /\ i \in IrcRowIds
    /\ ircRows[i].expires_at # "expired"
    /\ ircRows' = [ircRows EXCEPT ![i].expires_at =
                      IF @ = "later" THEN "soon" ELSE "expired"]
    /\ UNCHANGED <<irc, ircRef>>
    /\ UNCHANGED notI

\* connect(): the head of the loop, and refresh_token_if_needed up to its
\* first await after the select.  No active row, or a row that expires
\* later: nothing to do.  A row without a refresh token is marked inactive
\* and committed; any exception is logged and swallowed.
RefreshTokenIfNeededBegin(dbOk, commitOk) ==
    /\ irc.pc = "start"
    /\ IF ~dbOk \/ IrcActiveRows = {}
       THEN /\ irc' = [irc EXCEPT !.pc = "get_token"]
            /\ UNCHANGED <<ircRows, ircRef>>
       ELSE LET row == Newest(IrcActiveRows) IN
            IF ~ExpiresSoon(ircRows[row])
            THEN /\ irc' = [irc EXCEPT !.pc = "get_token"]
                 /\ UNCHANGED <<ircRows, ircRef>>
            ELSE IF ircRows[row].refresh_token
            THEN /\ irc' = [irc EXCEPT !.pc = "refreshing"]
                 /\ ircRef' = [row |-> row,
                               before |-> ircRows[row].access_token]
                 /\ UNCHANGED ircRows
            ELSE /\ irc' = [irc EXCEPT !.pc = "get_token"]
                 /\ ircRows' = IF commitOk
                               THEN [ircRows EXCEPT ![row].is_active = FALSE]
                               ELSE ircRows
                 /\ UNCHANGED ircRef
    /\ UNCHANGED notI

TokenRecordAccessToken_Previous(before, new) == before

\* token_record.access_token where "self.token == token_record.access_token"
\* reads it: after the assignment of the new access token.
TokenRecordAccessToken(before, new) == new

\* refresh_token_if_needed after _refresh_access_token answered: the row is
\* updated in place and committed, then the client's token is compared with
\* the record; a failed refresh marks the row inactive.
RefreshTokenIfNeededReturn(ok, new, newExpiry, commitOk) ==
    /\ irc.pc = "refreshing"
    /\ LET row == ircRef.row IN
       /\ ircRows' =
            IF ~commitOk THEN ircRows
            ELSE IF ok
            THEN [ircRows EXCEPT ![row].access_token = new,
                                 ![row].expires_at = newExpiry]
            ELSE [ircRows EXCEPT ![row].is_active = FALSE]
       /\ irc' = [irc EXCEPT
                     !.pc = "get_token",
                     !.token =
                        IF /\ ok /\ commitOk
                           /\ irc.token =
                                TokenRecordAccessToken(ircRef.before, new)
                        THEN new ELSE @]
    /\ ircRef' = NoIrcRef
    /\ UNCHANGED notI

\* connect(): "self.token = await self.get_active_token()".  Without a
\* valid row, or on a database error, get_active_token raises
\* HTTPException, which the except branch of connect() handles.
GetActiveToken(dbOk) ==
    /\ irc.pc = "get_token"
    /\ irc' =
         IF ~dbOk \/ IrcValidRows = {}
         THEN IrcExcept(IF dbOk THEN "HTTPException 401"
                        ELSE "HTTPException 500")
         ELSE LET token == ircRows[Newest(IrcValidRows)].access_token IN
              IF NoTokenAvailable(token)
              THEN [irc EXCEPT !.pc = "sleeping", !.token = token,
                               !.delay = NoTokenDelay, !.cause = "no_token"]
              ELSE [irc EXCEPT !.pc = "opening", !.token = token]
    /\ UNCHANGED <<ircRows, ircRef>>
    /\ UNCHANGED notI

\* connect(): asyncio.open_connection, then PASS, NICK and JOIN are
\* written and drain() is awaited.
OpenConnection(ok) ==
    /\ irc.pc = "opening"
    /\ irc' = IF ok THEN [irc EXCEPT !.pc = "draining"]
              ELSE IrcExcept("OSError")
    /\ UNCHANGED <<ircRows, ircRef>>
    /\ UNCHANGED notI

\* connect(): drain() returned; is_connected is set and listen() starts.
Handshake(ok) ==
    /\ irc.pc = "draining"
    /\ irc' = IF ok THEN [irc EXCEPT !.pc = "listening",
                                     !.is_connected = TRUE]
              ELSE IrcExcept("OSError")
    /\ UNCHANGED <<ircRows, ircRef>>
    /\ UNCHANGED notI

\* listen(): readline returned no data (the server or disconnect() closed
\* the stream), or raised.
ListenFails ==
    /\ irc.pc = "listening"
    /\ irc' = IrcExcept("ConnectionResetError")
    /\ UNCHANGED <<ircRows, ircRef>>
    /\ UNCHANGED notI

\* disconnect(), called by the service while the loop runs.
IrcDisconnect ==
    /\ irc.is_connected
    /\ irc' = [irc EXCEPT !.is_connected = FALSE]
    /\ UNCHANGED <<ircRows, ircRef>>
    /\ UNCHANGED notI

\* TwitchService.stop_connection_for_user: the registered client's
\* disconnect() runs to its end (the writer is closed, reader and writer
\* are dropped, is_connected is cleared) and the client is popped from
\* _connections.  The task that runs connect() is not cancelled.
TwitchStopConnectionForUser ==
    /\ ~irc.stopped
    /\ irc' = [irc EXCEPT !.is_connected = FALSE, !.stopped = TRUE]
    /\ UNCHANGED <<ircRows, ircRef>>
    /\ UNCHANGED notI

\* connect(): the sleep is over, the loop starts again.
IrcWake ==
    /\ irc.pc = "sleeping"
    /\ irc' = [irc EXCEPT !.pc = "start"]
    /\ UNCHANGED <<ircRows, ircRef>>
    /\ UNCHANGED notI

(***************************************************************************)
(* One call of YouTubeChatClient._make_api_request                         *)
(* (youtube_chat_client.py): the for loop over range(max_retries + 1).     *)
(***************************************************************************)
HttpMethods == {"GET", "POST", "PUT"}
IdleApiCall == [pc |-> "idle", method |-> "GET", attempt |-> 0,
                answers |-> <<>>, result |-> "none"]

\* The call starts: "for attempt in range(max_retries + 1)".
MakeApiRequestBegin(method) ==
    /\ apiCall.pc \in {"idle", "done"}
    /\ apiCall' = [IdleApiCall EXCEPT !.pc = "running", !.method = method]
    /\ UNCHANGED notQ

\* One pass of the loop.  A method other than GET and POST raises
\* ValueError inside the try before anything is sent, which takes the way
\* of a request error.  After "continue" or the sleep the loop goes to the
\* next attempt, and past the last one the function ends without a return
\* statement.
MakeApiRequestAttempt(resp) ==
    /\ apiCall.pc = "running"
    /\ LET sent == apiCall.method \in {"GET", "POST"}
           outcome == IF sent THEN ApiOutcome(resp, apiCall.attempt)
                      ELSE ApiOutcome("network", apiCall.attempt)
           answers == IF sent THEN Append(apiCall.answers, resp)
                      ELSE apiCall.answers
       IN  apiCall' =
             IF outcome = "retry"
             THEN IF apiCall.attempt + 1 < MaxRetries + 1
                  THEN [apiCall EXCEPT !.attempt = @ + 1,
                                       !.answers = answers]
                  ELSE [apiCall EXCEPT !.pc = "done", !.answers = answers,
                                       !.result = "fell_through"]
             ELSE [apiCall EXCEPT !.pc = "done", !.answers = answers,
                                  !.result = outcome]
    /\ UNCHANGED notQ

(***************************************************************************)
(* PaymentService.handle_webhook_event: the dispatch by event type         *)
(* (payment_service.py), under payment_controller.stripe_webhook.          *)
(***************************************************************************)
WebhookTypes == {"checkout.session.completed",
                 "customer.subscription.created",
                 "customer.subscription.updated",
                 "customer.subscription.deleted",
                 "invoice.payment_succeeded",
                 "invoice.payment_failed",
                 "charge.refunded"}

\* _handle_checkout_completed reads the session and logs; the branch for
\* any other type logs.  The endpoint answers with success.
LoggedOnly ==
    /\ hookResp' = 200
    /\ UNCHANGED <<subs, limitsResp, txns, cancelInfo, cancelResp>>
    /\ UNCHANGED notPKL

\* handle_webhook_event: the if/elif chain.  The event carries the user of
\* its metadata, a processor subscription id, a price, a status, and for an
\* invoice the payment intent and the amount in cents.
HandleWebhookEvent(type, u, subId, price, status, intent, cents) ==
    CASE type = "checkout.session.completed" -> LoggedOnly
      [] type = "customer.subscription.created" ->
           HandleSubscriptionCreated(u, subId, price, status)
      [] type = "customer.subscription.updated" ->
           HandleSubscriptionUpdated(subId, price, status, FALSE,
                                     status = StatusCanceled)
      [] type = "customer.subscription.deleted" ->
           HandleSubscriptionDeleted(subId)
      [] type = "invoice.payment_succeeded" ->
           HandlePaymentSucceeded(subId, intent, cents)
      [] type = "invoice.payment_failed" ->
           HandlePaymentFailed(subId, intent, cents)
      [] OTHER -> LoggedOnly

(***************************************************************************)
(* The Broadcaster worker losing streams (a pod that ended or was removed) *)
(* and what stop_broadcast gets from it (broadcaster_service.py).          *)
(***************************************************************************)
\* The worker drops a stream it had handed out.
WorkerLosesStream(s) ==
    /\ s \in Sids /\ s < nextSid
    /\ s \notin gone
    /\ gone' = gone \cup {s}
    /\ UNCHANGED notZ

\* The DELETE of stop_broadcast answered by the worker: for a stream the
\* worker does not have the answer is an error status, and
\* raise_for_status raises.
StopDeleteAnswered(q, ok) ==
    /\ preq[q].pc = "deleting"
    /\ preq[q].sid \in gone => ~ok
    /\ StopDeleteReturn(q, ok)

(***************************************************************************)
(* The subscriptions table as rows (payment_models.py: user_id is indexed, *)
(* stripe_customer_id is unique) and the operations that create a row      *)
(* (payment_service.py).  Each operation runs on its own session; every    *)
(* await on the database or on Stripe is a point where another runs.       *)
(***************************************************************************)
ProvReqs == {"p1", "p2"}
IdleProv == [pc |-> "idle", user |-> NoUser, customer |-> 0, result |-> 0]

\* select(Subscription).where(Subscription.user_id == user.id)
SubRowsOf(u) == {i \in 1..Len(subRows) : subRows[i].user_id = u}

\* The unique index on stripe_customer_id.
CustomerTaken(c) == \E i \in 1..Len(subRows) : subRows[i].stripe_customer_id = c

\* get_user_subscription as the auto-provisioning callers use it
\* (GET /limits, GET /subscription, start_broadcasting, the subscription
\* guard): a row is returned; without a row create_free_subscription is
\* entered; scalar_one_or_none raises on several rows.
GetUserSubscription(p, u) ==
    /\ prov[p].pc = "idle"
    /\ prov' = [prov EXCEPT ![p] =
                  IF Cardinality(SubRowsOf(u)) = 1
                  THEN [IdleProv EXCEPT !.pc = "done", !.user = u,
                                        !.result = 200]
                  ELSE IF SubRowsOf(u) = {}
                  THEN [IdleProv EXCEPT !.pc = "customer", !.user = u]
                  ELSE [IdleProv EXCEPT !.pc = "done", !.user = u,
                                        !.result = 500]]
    /\ UNCHANGED <<subRows, nextCustomer>>
    /\ UNCHANGED notJ

\* get_or_create_customer inside create_free_subscription: the customer of
\* the user's row, else a new Stripe customer.
GetOrCreateCustomer(p) ==
    /\ prov[p].pc = "customer"
    /\ LET rows == SubRowsOf(prov[p].user) IN
       IF Cardinality(rows) > 1
       THEN /\ prov' = [prov EXCEPT ![p].pc = "done", ![p].result = 500]
            /\ UNCHANGED nextCustomer
       ELSE IF rows # {}
       THEN /\ prov' = [prov EXCEPT
                          ![p].pc = "insert",
                          ![p].customer =
                              subRows[CHOOSE i \in rows : TRUE]
                                  .stripe_customer_id]
            /\ UNCHANGED nextCustomer
       ELSE /\ nextCustomer <= MaxCustomers
            /\ prov' = [prov EXCEPT ![p].pc = "insert",
                                    ![p].customer = nextCustomer]
            /\ nextCustomer' = nextCustomer + 1
    /\ UNCHANGED subRows
    /\ UNCHANGED notJ

\* db.add(subscription); db.commit(): the insert succeeds unless the
\* customer id is already in a row; the failure is rolled back and
\* answered with 500.
InsertSubscription(p, plan, answer) ==
    /\ IF CustomerTaken(prov[p].customer)
       THEN /\ prov' = [prov EXCEPT ![p].pc = "done", ![p].result = 500]
            /\ UNCHANGED subRows
       ELSE /\ subRows' = Append(subRows,
                              [user_id |-> prov[p].user,
                               stripe_customer_id |-> prov[p].customer,
                               plan |-> plan])
            /\ prov' = [prov EXCEPT ![p].pc = "done", ![p].result = answer]
    /\ UNCHANGED nextCustomer
    /\ UNCHANGED notJ

\* create_free_subscription past get_or_create_customer.
CreateFreeSubscription(p) ==
    /\ prov[p].pc = "insert"
    /\ InsertSubscription(p, PlanFree, 200)

\* _handle_subscription_created: the event names the user and the Stripe
\* customer; the user's row is selected.
SubscriptionCreatedSelect(p, u, c) ==
    /\ prov[p].pc = "idle"
    /\ c < nextCustomer
    /\ prov' = [prov EXCEPT ![p] =
                  IF Cardinality(SubRowsOf(u)) > 1
                  THEN [IdleProv EXCEPT !.pc = "done", !.user = u,
                                        !.result = 500]
                  ELSE IF SubRowsOf(u) # {}
                  THEN [IdleProv EXCEPT !.pc = "hook_update", !.user = u,
                                        !.customer = c]
                  ELSE [IdleProv EXCEPT !.pc = "hook_insert", !.user = u,
                                        !.customer = c]]
    /\ UNCHANGED <<subRows, nextCustomer>>
    /\ UNCHANGED notJ

\* _handle_subscription_created: the commit, of the changed row or of a
\* new one.
SubscriptionCreatedCommit(p) ==
    \/ /\ prov[p].pc = "hook_insert"
       /\ InsertSubscription(p, PlanPro, 200)
    \/ /\ prov[p].pc = "hook_update"
       /\ subRows' = [i \in 1..Len(subRows) |->
                        IF i \in SubRowsOf(prov[p].user)
                        THEN [subRows[i] EXCEPT !.plan = PlanPro]
                        ELSE subRows[i]]
       /\ prov' = [prov EXCEPT ![p].pc = "done", ![p].result = 200]
       /\ UNCHANGED nextCustomer
       /\ UNCHANGED notJ

\* The operation has answered.
ProvisionReturn(p) ==
    /\ prov[p].pc = "done"
    /\ prov' = [prov EXCEPT ![p] = IdleProv]
    /\ UNCHANGED <<subRows, nextCustomer>>
    /\ UNCHANGED notJ

(***************************************************************************)
(* One cached_db-wrapped read with the data it reads (redis_config.py):    *)
(* the services commit a mutation and then await delete_pattern.  A value  *)
(* is the data version it was computed from, together with the number of   *)
(* invalidations that had completed when its invocation started.           *)
(***************************************************************************)
ReadCalls == {"r1", "r2"}
NoEntryYet == [present |-> FALSE, val |-> 0, started |-> 0]
IdleRead == [pc |-> "idle", began |-> 0, started |-> 0, val |-> 0]

\* The wrapper is called: the key is computed and cache.get is awaited.
ReadBegin(c) ==
    /\ reads[c].pc \in {"idle", "done"}
    /\ reads' = [reads EXCEPT ![c] =
                   [IdleRead EXCEPT !.pc = "get",
                                    !.began = db.invalidated]]
    /\ UNCHANGED <<db, centry>>
    /\ UNCHANGED notN

\* cache.get answers: a hit is returned; on a miss the wrapped function
\* is invoked.
ReadGetReturn(c) ==
    /\ reads[c].pc = "get"
    /\ reads' = [reads EXCEPT ![c] =
                   IF centry.present
                   THEN [@ EXCEPT !.pc = "done", !.val = centry.val,
                                  !.started = centry.started]
                   ELSE [@ EXCEPT !.pc = "func",
                                  !.started = db.invalidated]]
    /\ UNCHANGED <<db, centry>>
    /\ UNCHANGED notN

\* The wrapped function reads the data and returns; cache.set is awaited.
ReadFuncReturn(c) ==
    /\ reads[c].pc = "func"
    /\ reads' = [reads EXCEPT ![c] = [@ EXCEPT !.pc = "set",
                                                !.val = db.version]]
    /\ UNCHANGED <<db, centry>>
    /\ UNCHANGED notN

\* cache.set answers; the result is returned.
ReadSetReturn(c) ==
    /\ reads[c].pc = "set"
    /\ centry' = [present |-> TRUE, val |-> reads[c].val,
                  started |-> reads[c].started]
    /\ reads' = [reads EXCEPT ![c].pc = "done"]
    /\ UNCHANGED db
    /\ UNCHANGED notN

\* A service commits a mutation of the data.
MutationCommit ==
    /\ ~db.due
    /\ db.version < MaxVersions
    /\ db' = [db EXCEPT !.version = @ + 1, !.due = TRUE]
    /\ UNCHANGED <<centry, reads>>
    /\ UNCHANGED notN

\* The delete_pattern the service awaits after the commit completes: the
\* matching keys are deleted.
InvalidateAfterMutation ==
    /\ db.due
    /\ centry' = NoEntryYet
    /\ db' = [db EXCEPT !.due = FALSE, !.invalidated = @ + 1]
    /\ UNCHANGED reads
    /\ UNCHANGED notN

(***************************************************************************)
(* Initial state and the specifications.                                   *)
(***************************************************************************)
Init ==
    /\ userStreams = [u \in Users |-> {}]
    /\ streamToUser = [s \in Sids |-> NoUser]
    /\ streamPlatforms = [s \in Sids |-> "none"]
    /\ sreq = [r \in StartReqs |-> IdleStart]
    /\ preq = [q \in StopReqs |-> IdleStop]
    /\ nextSid = 1
    /\ calls = 0
    /\ lastResp = Resp("none", 0, 0, FALSE)
    /\ subs = [u \in Users |-> NoSub]
    /\ limitsResp = [u \in Users |-> [code |-> 0, body |-> EmptyDict]]
    /\ events = [e \in EventIds |-> NoEvent]
    /\ createCalls = [e \in EventIds |-> 0]
    /\ endCalls = [e \in EventIds |-> 0]
    /\ lastEvt = EvtOutcome("none", "none", FALSE, "nobody")
    /\ store = [k \in Keys |-> Absent]
    /\ ccall = [c \in CacheCalls |-> IdleCall]
    /\ tokens = <<>>
    /\ tcb = [c \in CbSlots |-> IdleCb]
    /\ trf = [pc |-> "idle", row |-> 0]
    /\ yt = InitClient
    /\ ysend = [pc |-> "idle", attempt |-> 0]
    /\ quotaLatched = FALSE
    /\ res = [site |-> "none", requested |-> NoneVal, default |-> NoneVal,
              max_quality |-> "720p", effective |-> "720p"]
    /\ txns = <<>>
    /\ hookResp = 0
    /\ cancelInfo = [u \in Users |-> NotCanceled]
    /\ cancelResp = 0
    /\ channels = [c \in ChannelIds |-> NoChannel]
    /\ chanResp = "none"
    /\ endpoints = [r \in EndpointIds |-> NoEndpoint]
    /\ rtmpResp = "none"
    /\ registry = [p \in Platforms |-> {}]
    /\ clientsCreated = 0
    /\ tasksStarted = 0
    /\ stops = [k \in StopCalls |-> IdleStopCall]
    /\ sessions = [p \in Platforms |-> {}]
    /\ gwLast = GwOutcome("none", "none", NoUser, FALSE, FALSE)
    /\ userRows = {}
    /\ authResp = NoAuthResp
    /\ usersResp = UsersResp("none", {}, 0, FALSE)
    /\ unlimited = [u \in Users |-> FALSE]
    /\ pset = [u \in Users |-> {}]
    /\ reverse = [t \in PStreams |-> NoUser]
    /\ sweep = IdleSweep
    /\ pollRegistry = {}
    /\ pollClients = 0
    /\ stopPolling = [c \in 1..MaxClients |-> TRUE]
    /\ pollers = [t \in PollTasks |-> IdlePoller]
    /\ polled = [u \in Users |-> 0]
    /\ forwarded = [u \in Users |-> <<>>]
    /\ lastStart = "none"
    /\ redisClient = FALSE
    /\ redisConn = "idle"
    /\ redisData = [k \in RKeys |-> NoEntry]
    /\ redisResp = NoRedisResp
    /\ ircRows = <<>>
    /\ irc = InitIrc
    /\ ircRef = NoIrcRef
    /\ apiCall = IdleApiCall
    /\ gone = {}
    /\ subRows = <<>>
    /\ prov = [p \in ProvReqs |-> IdleProv]
    /\ nextCustomer = 1
    /\ db = [version |-> 0, due |-> FALSE, invalidated |-> 0]
    /\ centry = NoEntryYet
    /\ reads = [c \in ReadCalls |-> IdleRead]

\* Inputs that cannot matter to the call are not enumerated twice: the
\* processor is only asked when a subscription is missing, and the platform
\* only matters to a call that reaches the worker.
StartBeginStep ==
    \E r \in StartReqs, u \in Users \cup {NoUser}, p \in PlatformNames,
       stripeOk \in BOOLEAN, bbbOk \in BOOLEAN :
        /\ u \notin Users => p = "custom" /\ stripeOk /\ bbbOk
        /\ u \in Users /\ subs[u] # NoSub => stripeOk
        /\ ~bbbOk => p = "custom"
        /\ StartBegin(r, u, p, stripeOk, bbbOk)
StartPostReturnStep ==
    \E r \in StartReqs, resp \in {"ok", "http_error", "no_stream_id",
                                  "timeout", "error"} :
        StartPostReturn(r, resp)
StartChatReturnStep ==
    \E r \in StartReqs, c \in BOOLEAN : StartChatReturn(r, c)
StopBeginStep == \E q \in StopReqs, s \in Sids : StopBegin(q, s)
StopDeleteReturnStep ==
    \E q \in StopReqs, ok \in BOOLEAN : StopDeleteReturn(q, ok)
StopDisconnectReturnStep == \E q \in StopReqs : StopDisconnectReturn(q)
\* The webhooks of one paying user, moving between FREE and ENTERPRISE.
PlanChangeStep ==
    \E price \in {PriceFree, PriceEnterprise} :
        PlanChange("u1", "sub_a", price)

NextBroadcast ==
    \/ StartBeginStep
    \/ StartPostReturnStep
    \/ StartChatReturnStep
    \/ StopBeginStep
    \/ StopDeleteReturnStep
    \/ StopDisconnectReturnStep
    \/ PlanChangeStep

SpecBroadcast == Init /\ [][NextBroadcast]_vars

CreateEventStep ==
    \E e \in EventIds, u \in Users, t \in Titles :
        CreateEvent(e, u, t, "n1")
StartEventStep == \E e \in EventIds, u \in Users : StartEvent(e, u)
EndEventStep == \E e \in EventIds, u \in Users : EndEvent(e, u)
UpdateEventStep ==
    \E e \in EventIds, u \in Users, t \in Titles, o \in SUBSET Users :
        UpdateEvent(e, u, t, o)
DeleteEventStep == \E e \in EventIds, u \in Users : DeleteEvent(e, u)

NextEvents ==
    \/ CreateEventStep
    \/ StartEventStep
    \/ EndEventStep
    \/ UpdateEventStep
    \/ DeleteEventStep

SpecEvents == Init /\ [][NextEvents]_vars


\* The function under cached takes no session and is called with one
\* argument; the one under cached_db is called with either session.
CallBeginStep ==
    \E c \in CacheCalls, d \in Decorators, a \in Args,
       ss \in Sessions \cup {NoSession} :
        /\ (d = "cached_db") = (ss \in Sessions)
        /\ (d = "cached") => (a = "a")
        /\ CallBegin(c, d, a, ss)
CacheGetReturnStep ==
    \E c \in CacheCalls, ok \in BOOLEAN : CacheGetReturn(c, ok)
FuncReturnStep == \E c \in CacheCalls : FuncReturn(c)
CacheSetReturnStep ==
    \E c \in CacheCalls, ok \in BOOLEAN : CacheSetReturn(c, ok)
DeletePatternStep == \E pattern \in Patterns : DeletePattern(pattern)

NextCache ==
    \/ CallBeginStep
    \/ CacheGetReturnStep
    \/ FuncReturnStep
    \/ CacheSetReturnStep
    \/ Tick
    \/ DeletePatternStep

SpecCache == Init /\ [][NextCache]_vars


CallbackUpdateStep ==
    \E c \in CbSlots, platform \in Platforms, user \in Users :
        CallbackUpdate(c, platform, user)
CallbackCommitStep ==
    \E c \in CbSlots, ok \in BOOLEAN : CallbackCommit(c, ok)
RevokeStep == \E platform \in Platforms, user \in Users : Revoke(platform, user)
TwitchRefreshBeginStep ==
    \E target \in Users \cup {NoUser}, hasRefreshToken \in BOOLEAN :
        TwitchRefreshBegin(target, hasRefreshToken)
TwitchRefreshReturnStep == \E ok \in BOOLEAN : TwitchRefreshReturn(ok)
SaveRefreshedTokenStep == \E user \in Users : SaveRefreshedToken(user)

NextTokens ==
    \/ CallbackUpdateStep
    \/ CallbackCommitStep
    \/ RevokeStep
    \/ TwitchRefreshBeginStep
    \/ TwitchRefreshReturnStep
    \/ SaveRefreshedTokenStep

SpecTokens == Init /\ [][NextTokens]_vars

ConnectBeginStep == \E tokenOk \in BOOLEAN : ConnectBegin(tokenOk)
ApiAttemptStep ==
    \E resp \in ApiResponses, hasLive \in BOOLEAN : ApiAttempt(resp, hasLive)
SendAttemptStep == \E resp \in ApiResponses : SendAttempt(resp)

NextYouTube ==
    \/ ConnectBeginStep
    \/ ApiAttemptStep
    \/ PollFetchNoChat
    \/ PollWake
    \/ Disconnect
    \/ SendBegin
    \/ SendAttemptStep

SpecYouTube == Init /\ [][NextYouTube]_vars

GetCurrentLimitsStep ==
    \E u \in Users, stripeOk \in BOOLEAN : GetCurrentLimits(u, stripeOk)
\* The webhooks carry one status of each kind the code tells apart (active,
\* trialing, and two of the others) and one price id per plan the lookup
\* can give.
WebhookStatuses == {StatusActive, StatusTrialing, StatusCanceled,
                    StatusPastDue}
WebhookPrices == {PricePro, PriceEnterprise, "price_unknown"}
HandleSubscriptionCreatedStep ==
    \E u \in Users \cup {NoUser}, subId \in StripeSubIds,
       price \in WebhookPrices, status \in {StatusActive, StatusTrialing} :
        HandleSubscriptionCreated(u, subId, price, status)
HandleSubscriptionUpdatedStep ==
    \E subId \in StripeSubIds, price \in WebhookPrices,
       status \in WebhookStatuses :
        HandleSubscriptionUpdated(subId, price, status, FALSE,
                                  status = StatusCanceled)
HandleSubscriptionDeletedStep ==
    \E subId \in StripeSubIds : HandleSubscriptionDeleted(subId)

NextPayments ==
    \/ GetCurrentLimitsStep
    \/ HandleSubscriptionCreatedStep
    \/ HandleSubscriptionUpdatedStep
    \/ HandleSubscriptionDeletedStep

SpecPayments == Init /\ [][NextPayments]_vars

\* Requests name a quality, nothing, the empty string or an unknown value.
Requested == Qualities \cup {NoneVal, "", "8K"}
ClampCallStep ==
    \E requested \in Requested, max_quality \in Qualities \cup {"8K"} :
        ClampCall(requested, max_quality)
EffectiveResolutionStep ==
    \E requested \in Requested, default \in {NoneVal, "480p", "1440p", "8K"},
       plan \in Plans :
        EffectiveResolution(requested, default, plan)

NextResolution ==
    \/ ClampCallStep
    \/ EffectiveResolutionStep

SpecResolution == Init /\ [][NextResolution]_vars

\* Invoices carry an amount in cents and, unless nothing was charged, the
\* id of their payment intent.
InvoiceCents == {0, 1999}
SubscribeStep ==
    \E u \in Users, subId \in StripeSubIds :
        /\ (u = "u1") = (subId = "sub_a")
        /\ Subscribe(u, subId)
HandlePaymentSucceededStep ==
    \E subId \in StripeSubIds, intent \in PaymentIntents \cup {NoneVal},
       amountPaid \in InvoiceCents :
        /\ (intent = NoneVal) = (amountPaid = 0)
        /\ HandlePaymentSucceeded(subId, intent, amountPaid)
HandlePaymentFailedStep ==
    \E subId \in StripeSubIds, intent \in PaymentIntents \cup {NoneVal} :
        HandlePaymentFailed(subId, intent, 1999)

NextLedger ==
    \/ SubscribeStep
    \/ HandlePaymentSucceededStep
    \/ HandlePaymentFailedStep

SpecLedger == Init /\ [][NextLedger]_vars

CancelSubscriptionStep ==
    \E u \in Users, cancelImmediately \in BOOLEAN, stripeOk \in BOOLEAN :
        CancelSubscription(u, cancelImmediately, stripeOk)
CheckoutStep ==
    \E u \in Users, subId \in StripeSubIds, price \in WebhookPrices :
        /\ (u = "u1") = (subId = "sub_a")
        /\ Checkout(u, subId, price)
FreeTrialStep == \E u \in Users : GetCurrentLimits(u, TRUE)
SubscriptionEventStep ==
    \E subId \in StripeSubIds, status \in {StatusActive, StatusPastDue},
       capEnd \in BOOLEAN, canceledAt \in BOOLEAN :
        HandleSubscriptionUpdated(subId, PricePro, status, capEnd, canceledAt)

NextCancel ==
    \/ CancelSubscriptionStep
    \/ CheckoutStep
    \/ FreeTrialStep
    \/ SubscriptionEventStep
    \/ HandleSubscriptionDeletedStep

SpecCancel == Init /\ [][NextCancel]_vars

CatalogCreateEventStep ==
    \E e \in EventIds, u \in Users, t \in Titles, n \in ChannelNames :
        CreateEvent(e, u, t, n)
RetitleEventStep ==
    \E e \in EventIds, u \in Users, t \in Titles :
        UpdateEvent(e, u, t, events[e].organizers)
CreateChannelStep ==
    \E u \in Users, n \in ChannelNames : CreateChannel(u, n)
UpdateChannelStep ==
    \E c \in ChannelIds, u \in Users, n \in ChannelNames :
        UpdateChannel(c, u, n)
DeleteChannelStep == \E c \in ChannelIds, u \in Users : DeleteChannel(c, u)

NextCatalog ==
    \/ CatalogCreateEventStep
    \/ RetitleEventStep
    \/ DeleteEventStep
    \/ CreateChannelStep
    \/ UpdateChannelStep
    \/ DeleteChannelStep

SpecCatalog == Init /\ [][NextCatalog]_vars

CreateRtmpEndpointsStep ==
    \E r \in EndpointIds, u \in Users, t \in Titles, k \in StreamKeys,
       commitOk \in BOOLEAN :
        CreateRtmpEndpoints(r, u, t, k, commitOk)
UpdateRtmpEndpointsStep ==
    \E r \in EndpointIds, t \in Titles, k \in StreamKeys,
       commitOk \in BOOLEAN :
        UpdateRtmpEndpoints(r, t, k, commitOk)
DeleteRtmpEndpointsStep ==
    \E r \in EndpointIds, u \in Users, commitOk \in BOOLEAN :
        DeleteRtmpEndpoints(r, u, commitOk)

NextRtmp ==
    \/ CreateRtmpEndpointsStep
    \/ UpdateRtmpEndpointsStep
    \/ DeleteRtmpEndpointsStep

SpecRtmp == Init /\ [][NextRtmp]_vars

StartConnectionForUserStep ==
    \E p \in Platforms, u \in Users : StartConnectionForUser(p, u)
StartWithChatIdStep == \E u \in Users : StartWithChatId(u)
StopConnectionBeginStep ==
    \E k \in StopCalls, p \in Platforms, u \in Users :
        StopConnectionBegin(k, p, u)
StopConnectionReturnStep == \E k \in StopCalls : StopConnectionReturn(k)

NextRegistry ==
    \/ StartConnectionForUserStep
    \/ StartWithChatIdStep
    \/ StopConnectionBeginStep
    \/ StopConnectionReturnStep

SpecRegistry == Init /\ [][NextRegistry]_vars

GatewayConnectStep ==
    \E p \in Platforms, u \in Users, failed \in BOOLEAN :
        GatewayConnect(p, u, failed)
GatewayDisconnectStep ==
    \E p \in Platforms, u \in Users, failed \in BOOLEAN :
        GatewayDisconnect(p, u, failed)
ForwardMessageStep ==
    \E p \in Platforms, u \in Users, failed \in BOOLEAN :
        ForwardMessage(p, u, failed)

NextGateway ==
    \/ GatewayConnectStep
    \/ GatewayDisconnectStep
    \/ ForwardMessageStep

SpecGateway == Init /\ [][NextGateway]_vars

GetCurrentUserStep ==
    \E variant \in AuthVariants, header \in Headers,
       cookie \in TokenKinds \cup {NoToken} :
        /\ variant = "users" => cookie = NoToken
        /\ GetCurrentUser(variant, header, cookie)
CreateUserRowStep == \E k \in KeycloakIds : CreateUserRow(k)
DeleteUserRowStep == \E k \in KeycloakIds : DeleteUserRow(k)

NextAuth ==
    \/ GetCurrentUserStep
    \/ CreateUserRowStep
    \/ DeleteUserRowStep

SpecAuth == Init /\ [][NextAuth]_vars

GetUsersStep == \E roles \in SUBSET Roles : GetUsers(roles)
GetUserByIdStep ==
    \E roles \in SUBSET Roles, id \in KeycloakIds : GetUserById(roles, id)

NextUsers ==
    \/ GetUsersStep
    \/ GetUserByIdStep
    \/ CreateUserRowStep
    \/ DeleteUserRowStep

SpecUsers == Init /\ [][NextUsers]_vars

GrantUnlimitedAccessStep == \E u \in Users : GrantUnlimitedAccess(u)
\* Starts that reach the worker and are accepted, on a platform without chat.
MeteredStartBeginStep ==
    \E r \in StartReqs, u \in Users : StartBegin(r, u, "custom", TRUE, TRUE)
MeteredStartAcceptedStep == \E r \in StartReqs : StartPostReturn(r, "ok")
StartResolutionStep ==
    \E u \in Users, requested \in {NoneVal, "480p", "4K"} :
        StartResolution(u, requested, "1440p")

NextUnlimited ==
    \/ GrantUnlimitedAccessStep
    \/ MeteredStartBeginStep
    \/ MeteredStartAcceptedStep
    \/ StartResolutionStep
    \/ PlanChangeStep

SpecUnlimited == Init /\ [][NextUnlimited]_vars

AddUserStreamStep == \E u \in Users, t \in PStreams : AddUserStream(u, t)
ReversePointerExpiresStep == \E t \in PStreams : ReversePointerExpires(t)
SweepNextUserStep == \E getOk \in BOOLEAN : SweepNextUser(getOk)
\* The store is asked only when fetch_status raised.
SweepStreamStep ==
    \E t \in PStreams, fetchOk \in BOOLEAN, getOk \in BOOLEAN,
       writeOk \in BOOLEAN :
        /\ fetchOk => getOk /\ writeOk
        /\ SweepStream(t, fetchOk, getOk, writeOk)

NextSweep ==
    \/ AddUserStreamStep
    \/ ReversePointerExpiresStep
    \/ SweepBegin
    \/ SweepNextUserStep
    \/ SweepStreamStep

SpecSweep == Init /\ [][NextSweep]_vars

\* YouTube chat polling.
PollStartConnectionForUserStep ==
    \E t \in PollTasks, u \in Users : PollStartConnectionForUser(t, u)
PollStartWithChatIdStep ==
    \E t \in PollTasks, u \in Users : PollStartWithChatId(t, u)
PollConnectStep == \E t \in PollTasks, ok \in BOOLEAN : PollConnect(t, ok)
PollFetchStep ==
    \E t \in PollTasks, n \in 0..MaxBatch, ok \in BOOLEAN : PollFetch(t, n, ok)
PollForwardStep ==
    \E t \in PollTasks, delivered \in BOOLEAN : PollForward(t, delivered)
PollStopConnectionForUserStep == \E u \in Users : PollStopConnectionForUser(u)

NextPoll ==
    \/ PollStartConnectionForUserStep
    \/ PollStartWithChatIdStep
    \/ PollConnectStep
    \/ PollFetchStep
    \/ PollForwardStep
    \/ PollStopConnectionForUserStep

SpecPoll == Init /\ [][NextPoll]_vars

\* RedisCache.
RedisCallStep ==
    \E op \in RedisOps, key \in RKeys, arg \in RArgs, fault \in RedisFaults :
        RedisCall(op, key, arg, fault)
RedisConnectBeginStep == RedisConnectBegin
RedisConnectReturnStep == \E fault \in RedisFaults : RedisConnectReturn(fault)

NextRedis ==
    \/ RedisCallStep
    \/ RedisConnectBeginStep
    \/ RedisConnectReturnStep

SpecRedis == Init /\ [][NextRedis]_vars

\* TwitchIRCClient.
IrcLoginStep ==
    \E access \in IrcTokens, hasRefresh \in BOOLEAN : IrcLogin(access, hasRefresh)
IrcClockStep == \E i \in IrcRowIds : IrcClock(i)
RefreshTokenIfNeededBeginStep ==
    \E dbOk \in BOOLEAN, commitOk \in BOOLEAN :
        RefreshTokenIfNeededBegin(dbOk, commitOk)
RefreshTokenIfNeededReturnStep ==
    \E ok \in BOOLEAN, new \in IrcTokens, newExpiry \in {"soon", "later"},
       commitOk \in BOOLEAN :
        RefreshTokenIfNeededReturn(ok, new, newExpiry, commitOk)
GetActiveTokenStep == \E dbOk \in BOOLEAN : GetActiveToken(dbOk)
OpenConnectionStep == \E ok \in BOOLEAN : OpenConnection(ok)
HandshakeStep == \E ok \in BOOLEAN : Handshake(ok)
ListenFailsStep == ListenFails
IrcDisconnectStep == IrcDisconnect
IrcWakeStep == IrcWake
TwitchStopConnectionForUserStep == TwitchStopConnectionForUser

NextIrc ==
    \/ TwitchStopConnectionForUserStep
    \/ IrcLoginStep
    \/ IrcClockStep
    \/ RefreshTokenIfNeededBeginStep
    \/ RefreshTokenIfNeededReturnStep
    \/ GetActiveTokenStep
    \/ OpenConnectionStep
    \/ HandshakeStep
    \/ ListenFailsStep
    \/ IrcDisconnectStep
    \/ IrcWakeStep

SpecIrc == Init /\ [][NextIrc]_vars

\* _make_api_request by itself.
MakeApiRequestBeginStep == \E method \in HttpMethods : MakeApiRequestBegin(method)
MakeApiRequestAttemptStep == \E resp \in ApiResponses : MakeApiRequestAttempt(resp)

NextApiRequest ==
    \/ MakeApiRequestBeginStep
    \/ MakeApiRequestAttemptStep

SpecApiRequest == Init /\ [][NextApiRequest]_vars

\* Webhook deliveries.
WebhookEvent(type, u, subId, price, status, intent, cents) ==
    [type |-> type, u |-> u, subId |-> subId, price |-> price,
     status |-> status, intent |-> intent, cents |-> cents]
\* The deliveries: of each type, with the fields its handler reads.
WebhookEvents ==
    {WebhookEvent(type, NoUser, "sub_a", PricePro, StatusActive, NoneVal, 0) :
        type \in {"checkout.session.completed", "charge.refunded"}}
    \cup {WebhookEvent("customer.subscription.created", u, subId, price,
                       status, NoneVal, 0) :
            u \in Users \cup {NoUser}, subId \in StripeSubIds,
            price \in {PricePro}, status \in {StatusActive}}
    \cup {WebhookEvent("customer.subscription.updated", NoUser, subId, price,
                       status, NoneVal, 0) :
            subId \in StripeSubIds, price \in {PricePro, PriceEnterprise},
            status \in {StatusActive, StatusCanceled}}
    \cup {WebhookEvent("customer.subscription.deleted", NoUser, subId,
                       PricePro, StatusCanceled, NoneVal, 0) :
            subId \in StripeSubIds}
    \cup {WebhookEvent(type, NoUser, subId, PricePro, StatusActive,
                       inv[1], inv[2]) :
            type \in {"invoice.payment_succeeded", "invoice.payment_failed"},
            subId \in StripeSubIds,
            inv \in {<<"pi_1", 1999>>, <<NoneVal, 0>>}}
HandleWebhookEventStep ==
    \E ev \in WebhookEvents :
        HandleWebhookEvent(ev.type, ev.u, ev.subId, ev.price, ev.status,
                           ev.intent, ev.cents)

NextWebhook ==
    \/ HandleWebhookEventStep

SpecWebhook == Init /\ [][NextWebhook]_vars

\* Streams that vanish at the worker: one user starts streams to a custom
\* endpoint and stops them, the worker loses streams, and the periodic
\* sweep runs over the persistent sets.
GoneStartBeginStep ==
    \E r \in StartReqs : StartBegin(r, "u1", "custom", TRUE, TRUE)
GoneStartPostReturnStep == \E r \in StartReqs : StartPostReturn(r, "ok")
WorkerLosesStreamStep == \E s \in Sids : WorkerLosesStream(s)
StopDeleteAnsweredStep ==
    \E q \in StopReqs, ok \in BOOLEAN : StopDeleteAnswered(q, ok)
GoneAddUserStreamStep == AddUserStream("u1", "st1")
GoneSweepNextUserStep == SweepNextUser(TRUE)
GoneSweepStreamStep ==
    \E fetchOk \in BOOLEAN : SweepStream("st1", fetchOk, TRUE, TRUE)

NextGone ==
    \/ GoneStartBeginStep
    \/ GoneStartPostReturnStep
    \/ StopBeginStep
    \/ StopDeleteAnsweredStep
    \/ WorkerLosesStreamStep
    \/ GoneAddUserStreamStep
    \/ SweepBegin
    \/ GoneSweepNextUserStep
    \/ GoneSweepStreamStep

\* Every handler that was called runs to its end, and the sweep task keeps
\* running.
SpecGone ==
    /\ Init /\ [][NextGone]_vars
    /\ WF_vars(GoneStartPostReturnStep)
    /\ WF_vars(StopBeginStep)
    /\ WF_vars(StopDeleteAnsweredStep)
    /\ WF_vars(SweepBegin)
    /\ WF_vars(GoneSweepNextUserStep)
    /\ WF_vars(GoneSweepStreamStep)

GetUserSubscriptionStep ==
    \E p \in ProvReqs, u \in Users : GetUserSubscription(p, u)
GetOrCreateCustomerStep == \E p \in ProvReqs : GetOrCreateCustomer(p)
CreateFreeSubscriptionStep == \E p \in ProvReqs : CreateFreeSubscription(p)
SubscriptionCreatedSelectStep ==
    \E p \in ProvReqs, u \in Users, c \in 1..MaxCustomers :
        SubscriptionCreatedSelect(p, u, c)
SubscriptionCreatedCommitStep ==
    \E p \in ProvReqs : SubscriptionCreatedCommit(p)
ProvisionReturnStep == \E p \in ProvReqs : ProvisionReturn(p)

NextProvision ==
    \/ GetUserSubscriptionStep
    \/ GetOrCreateCustomerStep
    \/ CreateFreeSubscriptionStep
    \/ SubscriptionCreatedSelectStep
    \/ SubscriptionCreatedCommitStep
    \/ ProvisionReturnStep

SpecProvision == Init /\ [][NextProvision]_vars

\* Limits enforced against limits reported: streams are started and
\* stopped while subscription webhooks change plan and status and the
\* limits endpoint is read.
EnforceStartBeginStep ==
    \E r \in StartReqs : StartBegin(r, "u1", "custom", TRUE, TRUE)
EnforceStartPostReturnStep ==
    \E r \in StartReqs : StartPostReturn(r, "ok")
EnforceStopDeleteReturnStep ==
    \E q \in StopReqs : StopDeleteReturn(q, TRUE)
EnforceCreatedStep ==
    \E price \in {PricePro, PriceEnterprise} :
        PlanChange("u1", "sub_a", price)
EnforceUpdatedStep ==
    \E price \in {PricePro, PriceEnterprise},
       status \in {StatusActive, StatusCanceled} :
        HandleSubscriptionUpdated("sub_a", price, status, FALSE, FALSE)
EnforceGetCurrentLimitsStep == GetCurrentLimits("u1", TRUE)

NextEnforce ==
    \/ EnforceStartBeginStep
    \/ EnforceStartPostReturnStep
    \/ StopBeginStep
    \/ EnforceStopDeleteReturnStep
    \/ EnforceCreatedStep
    \/ EnforceUpdatedStep
    \/ EnforceGetCurrentLimitsStep

SpecEnforce == Init /\ [][NextEnforce]_vars

ReadBeginStep == \E c \in ReadCalls : ReadBegin(c)
ReadGetReturnStep == \E c \in ReadCalls : ReadGetReturn(c)
ReadFuncReturnStep == \E c \in ReadCalls : ReadFuncReturn(c)
ReadSetReturnStep == \E c \in ReadCalls : ReadSetReturn(c)

NextInvalidate ==
    \/ ReadBeginStep
    \/ ReadGetReturnStep
    \/ ReadFuncReturnStep
    \/ ReadSetReturnStep
    \/ MutationCommit
    \/ InvalidateAfterMutation

SpecInvalidate == Init /\ [][NextInvalidate]_vars

(***************************************************************************)
(* Properties of the broadcaster service.                                  *)
(***************************************************************************)
\* The limit the plan of user u states (None: unlimited).
PlanMaxStreams(u) ==
    DictGet(GetPlanLimits(subs[u].plan), "max_concurrent_streams", None)

\* C1: for a user whose plan has a finite max_concurrent_streams N, a
\* start_broadcasting call made while the in-memory set of that user holds
\* N or more stream ids is answered 403 with the limit N named in the detail,
\* no request goes to the worker (no call is left awaiting the POST) and no
\* tracking map changes.
C1_LimitRejects ==
    [][calls' # calls =>
        \A u \in Users :
          ( /\ subs[u] # NoSub
            /\ PlanMaxStreams(u) # None
            /\ Cardinality(userStreams[u]) >= PlanMaxStreams(u)
            /\ \E r \in StartReqs, p \in PlatformNames,
                  stripeOk \in BOOLEAN, bbbOk \in BOOLEAN :
                    StartBegin(r, u, p, stripeOk, bbbOk) )
          => /\ lastResp' = Resp("start", 403, PlanMaxStreams(u), FALSE)
             /\ sreq' = sreq
             /\ UNCHANGED <<userStreams, streamToUser, streamPlatforms,
                            nextSid>>]_vars

\* C1 witness: a start was answered 403 naming the FREE limit while the
\* user held a tracked stream.
C1_Witness ==
    /\ lastResp.op = "start" /\ lastResp.status = 403 /\ lastResp.detail = 1
    /\ \E u \in Users : Cardinality(userStreams[u]) >= 1

\* The step on which stop call q returns successfully.
StopReturns(q) ==
    \/ StopDeleteReturn(q, TRUE) /\ preq'[q] = IdleStop
    \/ StopDisconnectReturn(q)

\* C2 as written: when stop_broadcast(s) returns successfully for a tracked
\* s, s is in no tracking map, and an owner who was at or over the limit
\* passes the limit check afterwards.
C2_Original ==
    [][\A q \in StopReqs :
        (preq[q].tracked /\ preq'[q] = IdleStop /\ StopReturns(q)) =>
          LET s == preq[q].sid IN
          /\ \A u \in Users : s \notin userStreams'[u]
          /\ streamToUser'[s] = NoUser
          /\ streamPlatforms'[s] = "none"
          /\ \A u \in Users :
               ( /\ s \in userStreams[u]
                 /\ PlanMaxStreams(u) # None
                 /\ Cardinality(userStreams[u]) >= PlanMaxStreams(u) )
               => Cardinality(userStreams'[u]) < PlanMaxStreams(u)]_vars

\* C2 (amended): when stop_broadcast(s) returns successfully for a tracked
\* s, s is in no tracking map; the owner's set has shrunk by s, so an owner
\* who held at most N ids passes the limit check afterwards.
C2_StopFrees ==
    [][\A q \in StopReqs :
        (preq[q].tracked /\ preq'[q] = IdleStop /\ StopReturns(q)) =>
          LET s == preq[q].sid IN
          /\ \A u \in Users : s \notin userStreams'[u]
          /\ streamToUser'[s] = NoUser
          /\ streamPlatforms'[s] = "none"
          /\ \A u \in Users :
               s \in userStreams[u] =>
                 /\ userStreams'[u] = userStreams[u] \ {s}
                 /\ ( /\ PlanMaxStreams(u) # None
                      /\ Cardinality(userStreams[u]) <= PlanMaxStreams(u) )
                    => Cardinality(userStreams'[u]) < PlanMaxStreams(u)]_vars

\* C2 witness: a stop of a tracked stream has returned successfully and a
\* user on a finite limit is below it again.
C2_Witness ==
    /\ lastResp.op = "stop" /\ lastResp.status = 200 /\ lastResp.tracked
    /\ \E u \in Users :
         /\ subs[u] # NoSub
         /\ PlanMaxStreams(u) # None
         /\ Cardinality(userStreams[u]) < PlanMaxStreams(u)

\* C18 as written: when the worker accepted the stream and the chat
\* gateway's connect call raises, start_broadcasting returns its success
\* response, the stream is tracked for the user and no platform is recorded
\* for it.
C18_Original ==
    [][\A r \in StartReqs :
          (StartChatReturn(r, FALSE) /\ sreq'[r] = IdleStart)
          => /\ lastResp' = Resp("start", 200, 0, FALSE)
             /\ sreq[r].sid \in userStreams'[sreq[r].user]
             /\ streamToUser'[sreq[r].sid] = sreq[r].user
             /\ streamPlatforms'[sreq[r].sid] = "none"]_vars

\* C18 (amended): the worker's acceptance tracks the stream for the user;
\* the failed connect call leaves the tracking as it is, returns the
\* success response and records no platform; and only the cleanup of a
\* stop_broadcast takes a stream out of a user's set.
C18_ChatFailureTolerated ==
    [][/\ \A r \in StartReqs :
            /\ (StartPostReturn(r, "ok") /\ sreq[r].pc = "posting")
                 => /\ nextSid \in userStreams'[sreq[r].user]
                    /\ streamToUser'[nextSid] = sreq[r].user
            /\ (StartChatReturn(r, FALSE) /\ sreq'[r] = IdleStart)
                 => /\ lastResp' = Resp("start", 200, 0, FALSE)
                    /\ userStreams' = userStreams
                    /\ streamToUser' = streamToUser
                    /\ streamPlatforms'[sreq[r].sid] = "none"
       /\ (\E u \in Users : userStreams[u] \ userStreams'[u] # {})
            => \E q \in StopReqs :
                   \/ StopDisconnectReturn(q)
                   \/ \E ok \in BOOLEAN : StopDeleteReturn(q, ok)]_vars

\* C18 witness: a start for a chat platform has returned 200 and its
\* stream is tracked with no platform recorded.
C18_Witness ==
    /\ lastResp = Resp("start", 200, 0, FALSE)
    /\ \E s \in Sids, u \in Users :
        /\ s \in userStreams[u] /\ streamToUser[s] = u
        /\ streamPlatforms[s] = "none"
    /\ \A r \in StartReqs : sreq[r].pc = "idle"

(***************************************************************************)
(* Properties of the event state machine.                                  *)
(***************************************************************************)
\* C3: over any sequence of start_event calls by the creator, create_meeting
\* is invoked once in total for an event, on the start that takes it LIVE: a
\* SCHEDULED event has had none, a LIVE or ENDED event exactly one; a start
\* made while the event is LIVE creates no meeting, returns the join
\* information and leaves the event LIVE.
C3_MeetingCreatedOnce ==
    /\ [](\A e \in EventIds :
            /\ createCalls[e] <= 1
            /\ events[e].exists /\ events[e].status = Scheduled
                 => createCalls[e] = 0
            /\ events[e].exists /\ events[e].status \in {Live, Ended}
                 => createCalls[e] = 1)
    /\ [][\A e \in EventIds, u \in Users :
            ( /\ events[e].exists
              /\ events[e].creator = u
              /\ events[e].status = Live
              /\ StartEvent(e, u) )
            => /\ createCalls' = createCalls
               /\ events'[e].status = Live
               /\ lastEvt'.result = "join"]_vars

\* C3 witness: the creator has started an event that was LIVE already: the
\* call returned the join information without calling the conferencing
\* service.
C3_Witness ==
    /\ lastEvt = EvtOutcome("start", "join", FALSE, "creator")
    /\ \E e \in EventIds :
         events[e].exists /\ events[e].status = Live /\ createCalls[e] = 1

\* C4: an event is created SCHEDULED with no meeting; its status changes
\* only from SCHEDULED to LIVE by start_event or from LIVE to ENDED by
\* end_event, so ENDED is never left and LIVE never returns to SCHEDULED;
\* meeting_created, once true, stays true.
C4_StatusMonotone ==
    [][\A e \in EventIds :
        /\ ~events[e].exists /\ events'[e].exists
             => events'[e].status = Scheduled /\ ~events'[e].meeting_created
        /\ events[e].exists /\ events'[e].exists
             => /\ events'[e].status # events[e].status
                  => \/ /\ events[e].status = Scheduled
                        /\ events'[e].status = Live
                        /\ \E u \in Users : StartEvent(e, u)
                     \/ /\ events[e].status = Live
                        /\ events'[e].status = Ended
                        /\ \E u \in Users : EndEvent(e, u)
                /\ events[e].meeting_created => events'[e].meeting_created]_vars

\* C4 witness: an event went SCHEDULED, LIVE, ENDED.
C4_Witness ==
    \E e \in EventIds :
        /\ events[e].exists /\ events[e].status = Ended
        /\ events[e].meeting_created
        /\ createCalls[e] = 1 /\ endCalls[e] = 1

\* C5: start_event, end_event, update_event and delete_event made on an
\* event by a user other than its creator (an organizer or not), at any
\* status, fail with a domain error, change nothing of the events and make
\* no create_meeting or end_meeting call.
C5_OnlyCreator ==
    [][\A e \in EventIds, u \in Users :
        ( /\ events[e].exists
          /\ u # events[e].creator
          /\ \/ StartEvent(e, u)
             \/ EndEvent(e, u)
             \/ DeleteEvent(e, u)
             \/ \E t \in Titles, o \in SUBSET Users : UpdateEvent(e, u, t, o) )
        => /\ lastEvt'.result = "error"
           /\ UNCHANGED <<events, createCalls, endCalls>>]_vars

\* C5 witness: an organizer who is not the creator was refused on a LIVE
\* event.
C5_Witness ==
    /\ lastEvt.result = "error" /\ lastEvt.caller = "other"
    /\ lastEvt.op \in {"start", "end", "update", "delete"}
    /\ \E e \in EventIds :
         /\ events[e].exists /\ events[e].status = Live
         /\ events[e].organizers \ {events[e].creator} # {}

(***************************************************************************)
(* Properties of the memoization decorators.                               *)
(***************************************************************************)
\* The cache holds an entry written for the cached_db function and the
\* non-session argument arg.
EntryLive(arg) ==
    \E k \in Keys : k[1] = "cached_db" /\ k[2] = arg /\ store[k].present

\* The step on which the cache answers the read of cached_db call c.
CachedDbRead(c) ==
    /\ ccall[c].pc = "get"
    /\ ccall[c].key[1] = "cached_db"
    /\ CacheGetReturn(c, TRUE)

\* What the claim says of time and of invalidation: an entry lives for Ttl
\* ticks and no longer, and delete_pattern drops every key under the prefix.
EntryLifetime ==
    /\ Tick => \A k \in Keys :
                 store[k].present =>
                   (store'[k].present <=> store[k].ttl > 1)
    /\ DeletePattern("cached_db:*") =>
         \A k \in Keys : k[1] = "cached_db" => ~store'[k].present
    /\ \A c \in CacheCalls :
         ccall[c].pc = "set" /\ CacheSetReturn(c, TRUE) =>
           store'[ccall[c].key].present /\ store'[ccall[c].key].ttl = Ttl

\* C6 as written: a cached_db call made while the entry an earlier call with
\* the same non-session arguments wrote is live (within the TTL, no
\* invalidation since) does not invoke the function and returns the same
\* result; a call made when the entry is gone (TTL elapsed, or deleted by a
\* matching delete_pattern) invokes it again.
C6_Original ==
    [][/\ \A c \in CacheCalls :
            CachedDbRead(c) =>
              IF EntryLive(ccall[c].arg)
              THEN /\ ccall'[c].pc = "done"
                   /\ ccall'[c].invoked = 0
                   /\ ccall'[c].result = WrappedResult(ccall[c].arg)
              ELSE ccall'[c].pc = "func"
       /\ EntryLifetime]_vars

\* C6 (amended): the same, for arguments whose result is not None; a result
\* of None is never served from the cache, so every call with such arguments
\* invokes the function again.
C6_Memoizes ==
    [][/\ \A c \in CacheCalls :
            CachedDbRead(c) =>
              IF EntryLive(ccall[c].arg)
                 /\ WrappedResult(ccall[c].arg) # NoneVal
              THEN /\ ccall'[c].pc = "done"
                   /\ ccall'[c].invoked = 0
                   /\ ccall'[c].result = WrappedResult(ccall[c].arg)
              ELSE ccall'[c].pc = "func"
       /\ EntryLifetime]_vars

\* C6 witness: a cached_db call was served from the cache while another
\* entry has one tick left to live.
C6_Witness ==
    /\ \E c \in CacheCalls :
         /\ ccall[c].pc = "done" /\ ccall[c].key[1] = "cached_db"
         /\ ccall[c].invoked = 0 /\ ccall[c].result = "va"
    /\ \E k \in Keys : store[k].present /\ store[k].ttl = 1

\* C7: when cache.get or cache.set raises during a decorated call, the call
\* still ends by returning the result of exactly one execution of the
\* wrapped function; a failed write leaves the store as it was, and a read
\* that finds no entry is a miss, so the next identical call misses again.
C7_CacheFailureTransparent ==
    /\ [](\A c \in CacheCalls :
            ccall[c].pc = "done" /\ (ccall[c].getFailed \/ ccall[c].setFailed)
              => /\ ccall[c].invoked = 1
                 /\ ccall[c].result = WrappedResult(ccall[c].arg))
    /\ [][\A c \in CacheCalls :
            /\ ccall[c].pc = "get" /\ CacheGetReturn(c, FALSE)
                 => ccall'[c].pc = "func"
            /\ ccall[c].pc = "set" /\ CacheSetReturn(c, FALSE)
                 => /\ store' = store
                    /\ ccall'[c].pc = "done"
                    /\ ccall'[c].result = WrappedResult(ccall[c].arg)
            /\ ( /\ ccall[c].pc = "get"
                 /\ ~store[ccall[c].key].present
                 /\ \E ok \in BOOLEAN : CacheGetReturn(c, ok) )
                 => ccall'[c].pc = "func"]_vars

\* C7 witness: a call whose read and write both failed has returned the
\* function's result, and its key is not in the store.
C7_Witness ==
    \E c \in CacheCalls :
        /\ ccall[c].pc = "done"
        /\ ccall[c].getFailed /\ ccall[c].setFailed
        /\ ccall[c].invoked = 1 /\ ccall[c].result = "va"
        /\ ~store[ccall[c].key].present

(***************************************************************************)
(* Properties of the token tables.                                         *)
(***************************************************************************)
\* C8: on each platform a user never has more than one active token row,
\* and right after a callback commits, the user's only active row on that
\* platform is the row the callback stored.
C8_OneActiveToken ==
    /\ [](\A platform \in Platforms, user \in Users :
            Cardinality(ActiveRows(platform, user)) <= 1)
    /\ [][\A c \in CbSlots :
            ( /\ tcb[c].pc = "updated"
              /\ Len(tokens') = Len(tokens) + 1
              /\ CallbackCommit(c, TRUE) )
            => {i \in 1..Len(tokens') :
                   /\ tokens'[i].platform = tcb[c].platform
                   /\ tokens'[i].user = tcb[c].user
                   /\ tokens'[i].is_active} = {Len(tokens')}]_vars

(***************************************************************************)
(* Properties of the YouTube chat client.                                  *)
(***************************************************************************)
\* C9: the step on which a request is answered with quotaExceeded leaves
\* the client disconnected, with the quota message as last_error and the
\* stop flag set; and from then on no request is sent until connect() is
\* called again.
C9_QuotaLatch ==
    [][/\ ( \/ \E hasLive \in BOOLEAN : ApiAttempt("quotaExceeded", hasLive)
            \/ SendAttempt("quotaExceeded") )
          => /\ ~yt'.is_connected
             /\ yt'.last_error = QuotaMessage
             /\ yt'.stop_polling
       /\ quotaLatched => ~(ApiAttemptStep \/ SendAttemptStep)]_vars

(***************************************************************************)
(* Properties of the limits endpoint.                                      *)
(***************************************************************************)
\* The limits table of the specification, on the six fields it names.
SpecRow(plan) ==
    CASE plan = PlanFree ->
           [max_quality |-> "720p", max_concurrent_streams |-> 1,
            max_stream_duration_hours |-> 1, chat_filter |-> FALSE,
            oauth_enabled |-> FALSE, analytics_enabled |-> FALSE]
      [] plan = PlanPro ->
           [max_quality |-> "1080p", max_concurrent_streams |-> 10,
            max_stream_duration_hours |-> None, chat_filter |-> FALSE,
            oauth_enabled |-> FALSE, analytics_enabled |-> FALSE]
      [] plan = PlanEnterprise ->
           [max_quality |-> "4K", max_concurrent_streams |-> None,
            max_stream_duration_hours |-> None, chat_filter |-> TRUE,
            oauth_enabled |-> TRUE, analytics_enabled |-> TRUE]

SixFields == {"max_quality", "max_concurrent_streams",
              "max_stream_duration_hours", "chat_filter", "oauth_enabled",
              "analytics_enabled"}

\* The answer body carries the row on those fields.
CarriesRow(body, row) ==
    /\ SixFields \subseteq DOMAIN body
    /\ \A f \in SixFields : body[f] = row[f]

\* C10: GET /api/payments/limits answers an ACTIVE or TRIALING subscription
\* with the limits row of its plan, and a subscription in any other status
\* with the FREE row, whatever its plan.
C10_LimitsRow ==
    [][\A u \in Users, stripeOk \in BOOLEAN :
          ( /\ subs[u] # NoSub
            /\ GetCurrentLimits(u, stripeOk) )
          => /\ limitsResp'[u].code = 200
             /\ CarriesRow(limitsResp'[u].body,
                    IF subs[u].status \in {StatusActive, StatusTrialing}
                    THEN SpecRow(subs[u].plan)
                    ELSE SpecRow(PlanFree))]_vars

\* C10 witness: one user's canceled paid subscription was answered with the
\* FREE row while another's active PRO subscription was answered with the
\* PRO row.
C10_Witness ==
    \E u, v \in Users :
        /\ subs[u] # NoSub /\ subs[v] # NoSub
        /\ subs[u].plan \in {PlanPro, PlanEnterprise}
        /\ subs[u].status = StatusCanceled
        /\ limitsResp[u].code = 200
        /\ CarriesRow(limitsResp[u].body, SpecRow(PlanFree))
        /\ subs[v].plan = PlanPro /\ subs[v].status = StatusActive
        /\ limitsResp[v].code = 200
        /\ CarriesRow(limitsResp[v].body, SpecRow(PlanPro))


(***************************************************************************)
(* Properties of resolution clamping.                                      *)
(***************************************************************************)
Rank(q) == QualityOrder[q]

\* What the claim says the worker gets for request r under plan maximum m.
Clamped(r, m) ==
    IF r \in Qualities /\ Rank(r) <= Rank(m) THEN r ELSE m

\* C11 as written: the resolution sent to the worker is the requested one
\* when it is recognised and ranks at or below the plan maximum, and the
\* plan maximum otherwise, absent requests included.
C11_Original ==
    res.site = "start" =>
        res.effective = Clamped(res.requested, res.max_quality)

\* C11 (amended): the same with the user's default resolution standing in
\* for an absent request; the result never ranks above the plan maximum,
\* and a recognised request at or below it is sent as it is.
C11_Clamps ==
    /\ res.site = "start" =>
         /\ res.effective =
              Clamped(IF res.requested \in {NoneVal, ""} THEN res.default
                      ELSE res.requested, res.max_quality)
         /\ Rank(res.effective) <= Rank(res.max_quality)
         /\ (res.requested \in Qualities
               /\ Rank(res.requested) <= Rank(res.max_quality))
              => res.effective = res.requested
    /\ (res.site = "clamp" /\ res.max_quality \in Qualities) =>
         res.effective = Clamped(res.requested, res.max_quality)

\* C11 witness: a 4K request on the PRO plan was clamped to 1080p.
C11_Witness ==
    /\ res.site = "start"
    /\ res.requested = "4K"
    /\ res.max_quality = "1080p"
    /\ res.effective = "1080p"


(***************************************************************************)
(* Properties of the payment ledger.                                       *)
(***************************************************************************)
\* The step appended exactly one row, of the given type, and touched no
\* other row.
AppendedOne(type) ==
    /\ Len(txns') = Len(txns) + 1
    /\ SubSeq(txns', 1, Len(txns)) = txns
    /\ txns'[Len(txns')].transaction_type = type

\* C12: an invoice.payment_succeeded webhook for an invoice of a known
\* subscription appends exactly one PAYMENT transaction whose amount is
\* amount_paid / 100 and leaves the subscription's status as it was; an
\* invoice.payment_failed webhook appends exactly one FAILED transaction and
\* sets the status to PAST_DUE; neither changes an existing transaction.
C12_Ledger ==
    [][\A subId \in StripeSubIds, intent \in PaymentIntents \cup {NoneVal},
          cents \in InvoiceCents :
          SubOwner(subId) # NoUser =>
            /\ HandlePaymentSucceeded(subId, intent, cents) =>
                 /\ AppendedOne(TypePayment)
                 /\ txns'[Len(txns')].amount.units * 100
                      + txns'[Len(txns')].amount.hundredths = cents
                 /\ subs'[SubOwner(subId)].status
                      = subs[SubOwner(subId)].status
            /\ HandlePaymentFailed(subId, intent, cents) =>
                 /\ AppendedOne(TypeFailed)
                 /\ subs'[SubOwner(subId)].status = StatusPastDue]_vars


(***************************************************************************)
(* Properties of cancel_subscription.                                      *)
(***************************************************************************)
\* The row of u and its cancellation columns are as they were.
RowUnchanged(u) == subs'[u] = subs[u] /\ cancelInfo'[u] = cancelInfo[u]

\* C13 as written: cancelling a FREE-plan subscription fails with 400 and
\* changes nothing; cancelling a paid one immediately sets the status to
\* CANCELED and stamps canceled_at; cancelling it at the period's end sets
\* cancel_at_period_end and leaves the status.
C13_Original ==
    [][\A u \in Users, cancelImmediately \in BOOLEAN, stripeOk \in BOOLEAN :
          (subs[u] # NoSub /\ CancelSubscription(u, cancelImmediately, stripeOk))
          => IF subs[u].plan = PlanFree
             THEN cancelResp' = 400 /\ RowUnchanged(u)
             ELSE IF cancelImmediately
             THEN /\ subs'[u].status = StatusCanceled
                  /\ cancelInfo'[u].canceled_at
             ELSE /\ cancelInfo'[u].cancel_at_period_end
                  /\ subs'[u].status = subs[u].status]_vars

\* C13 (amended): the same when the processor accepts the call; when it
\* refuses, the operation fails with 500 and changes nothing.
C13_Cancel ==
    [][\A u \in Users, cancelImmediately \in BOOLEAN, stripeOk \in BOOLEAN :
          (subs[u] # NoSub /\ CancelSubscription(u, cancelImmediately, stripeOk))
          => IF subs[u].plan = PlanFree
             THEN cancelResp' = 400 /\ RowUnchanged(u)
             ELSE IF ~stripeOk
             THEN cancelResp' = 500 /\ RowUnchanged(u)
             ELSE IF cancelImmediately
             THEN /\ subs'[u].status = StatusCanceled
                  /\ cancelInfo'[u].canceled_at
                  /\ cancelResp' = 200
             ELSE /\ cancelInfo'[u].cancel_at_period_end
                  /\ subs'[u].status = subs[u].status
                  /\ cancelResp' = 200]_vars

\* C13 witness: one user's paid subscription was cancelled on the spot and
\* the other's is marked to end with its period, still active.
C13_Witness ==
    \E u, v \in Users :
        /\ subs[u] # NoSub /\ subs[v] # NoSub
        /\ subs[u].plan = PlanPro /\ subs[u].status = StatusCanceled
        /\ cancelInfo[u].canceled_at
        /\ subs[v].plan # PlanFree /\ subs[v].status = StatusActive
        /\ cancelInfo[v].cancel_at_period_end
        /\ cancelResp = 200


\* C16: end_event on an event that is not LIVE fails with a domain error,
\* calls end_meeting not at all and leaves the status; by the creator on a
\* LIVE event it calls end_meeting once and the event becomes ENDED.
C16_EndOnlyFromLive ==
    [][\A e \in EventIds, u \in Users :
          (events[e].exists /\ EndEvent(e, u))
          => /\ events[e].status # Live
                  => /\ lastEvt'.result = "error"
                     /\ ~lastEvt'.calledBBB
                     /\ endCalls' = endCalls
                     /\ events'[e].status = events[e].status
             /\ (events[e].status = Live /\ events[e].creator = u)
                  => /\ lastEvt'.result = "ok"
                     /\ endCalls' = [endCalls EXCEPT ![e] = @ + 1]
                     /\ events'[e].status = Ended]_vars

\* C16 witness: one event was ended by its creator with one end_meeting
\* call, and an end_event on the other, still SCHEDULED, was just refused.
C16_Witness ==
    \E e1, e2 \in EventIds :
        /\ events[e1].exists /\ events[e1].status = Ended
        /\ endCalls[e1] = 1
        /\ events[e2].exists /\ events[e2].status = Scheduled
        /\ endCalls[e2] = 0
        /\ lastEvt = EvtOutcome("end", "error", FALSE, "creator")

KeyUsed(k) == \E r \in EndpointIds : endpoints[r].stream_key = k
TitleUsed(t) == \E r \in EndpointIds : endpoints[r].title = t

\* C15: create_rtmp_endpoints with a stream key some endpoint already has
\* fails with the stream-key error, with a title some endpoint already has
\* with the title error (with both, with the error of the constraint the
\* database reports), and in these cases and on any other commit failure no
\* endpoint row is added.
C15_CreateRejects ==
    [][\A r \in EndpointIds, u \in Users, t \in Titles, k \in StreamKeys,
         commitOk \in BOOLEAN :
          CreateRtmpEndpoints(r, u, t, k, commitOk)
          => /\ (KeyUsed(k) /\ ~TitleUsed(t) /\ commitOk)
                  => rtmpResp' = KeyExists
             /\ (TitleUsed(t) /\ ~KeyUsed(k) /\ commitOk)
                  => rtmpResp' = TitleExists
             /\ (KeyUsed(k) /\ TitleUsed(t) /\ commitOk)
                  => rtmpResp' \in {KeyExists, TitleExists}
             /\ (KeyUsed(k) \/ TitleUsed(t) \/ ~commitOk)
                  => rtmpResp' # "ok" /\ endpoints' = endpoints]_vars

\* C15 witness: a create with another user's stream key was just refused,
\* and the table holds two endpoints.
C15_Witness ==
    /\ rtmpResp = KeyExists
    /\ \E r1, r2 \in EndpointIds :
        /\ r1 # r2
        /\ endpoints[r1] # NoEndpoint /\ endpoints[r2] # NoEndpoint
        /\ endpoints[r1].user_id # endpoints[r2].user_id
    /\ \E r \in EndpointIds : endpoints[r] = NoEndpoint


(***************************************************************************)
(* Properties of the chat connection managers.                             *)
(***************************************************************************)
\* The clients the registry of platform p holds for user u.
ClientsOf(p, u) == {pair \in registry[p] : pair[1] = u}

\* C17: on each platform the registry holds at most one client per user,
\* however the start and stop calls interleave, and a
\* start_connection_for_user for a user with a registered client makes no
\* client and starts no connect task.
C17_OneClientPerUser ==
    /\ [](\A p \in Platforms, u \in Users : Cardinality(ClientsOf(p, u)) <= 1)
    /\ [][\A p \in Platforms, u \in Users :
            (ClientsOf(p, u) # {} /\ StartConnectionForUser(p, u))
            => /\ clientsCreated' = clientsCreated
               /\ tasksStarted' = tasksStarted
               /\ registry' = registry]_vars

\* C17 witness: a user's client is registered while two stop calls for that
\* user wait on their disconnect, and a second client was made after the
\* first was removed.
C17_Witness ==
    \E p \in Platforms, u \in Users :
        /\ ClientsOf(p, u) # {}
        /\ clientsCreated >= 2
        /\ \A k \in StopCalls :
            /\ stops[k].pc = "disconnecting"
            /\ stops[k].platform = p /\ stops[k].user = u
        /\ \E k \in StopCalls : <<u, stops[k].client>> \notin registry[p]


(***************************************************************************)
(* Properties of the chat gateway client.                                  *)
(***************************************************************************)
\* C19: a failure of a connect call or of a disconnect call is raised to
\* the caller; a failure of forward_message never is.
C19_Propagation ==
    /\ gwLast.op \in {"connect", "disconnect"} => gwLast.raised = gwLast.failed
    /\ gwLast.op = "forward" => ~gwLast.raised


(***************************************************************************)
(* Properties of the get_current_user dependencies.                        *)
(***************************************************************************)
\* C20: get_current_user fails with 401 when no bearer token is supplied or
\* the token's validation fails, with 404 when the token is valid and no
\* users row matches its subject, and returns a user only for a valid token
\* whose subject has a row.
C20_CurrentUser ==
    authResp.variant # "none" =>
        /\ authResp.token \in {NoToken, "invalid"} => authResp.code = 401
        /\ (authResp.token \in KeycloakIds /\ ~authResp.rowExists)
             => authResp.code = 404
        /\ authResp.user # NoneVal
             => /\ authResp.token \in KeycloakIds /\ authResp.rowExists
                /\ authResp.user = authResp.token


(***************************************************************************)
(* Properties of the user listing endpoints.                               *)
(***************************************************************************)
\* C21: GET /api/users and GET /api/users/{id} answer 403 to a caller
\* without the admin role and do not run the list or the lookup for them; a
\* caller with the admin role has it run and is not refused.
C21_AdminOnly ==
    usersResp.endpoint # "none" =>
        /\ "admin" \notin usersResp.roles
             => usersResp.code = 403 /\ ~usersResp.executed
        /\ "admin" \in usersResp.roles
             => usersResp.code # 403 /\ usersResp.executed


(***************************************************************************)
(* Properties of the unlimited_access flag.                                *)
(***************************************************************************)
\* C22: for a user whose unlimited_access flag is set, start_broadcasting
\* does not answer 403 because of the plan's concurrent-stream limit, and
\* the resolution it sends is the one requested, not the plan's
\* max_quality.
C22_UnlimitedBypass ==
    [][\A u \in Users :
          unlimited[u] =>
            /\ (calls' # calls
                  /\ \E r \in StartReqs : StartBegin(r, u, "custom", TRUE, TRUE))
                 => lastResp'.status # 403
            /\ \A requested \in Qualities :
                 StartResolution(u, requested, "1440p")
                 => res'.effective = requested]_vars


(***************************************************************************)
(* Properties of the stream cleanup sweep.                                 *)
(***************************************************************************)
\* C23: when a sweep is completed, every stream that was in a user's set
\* when it began and whose fetch_status raised is out of that user's set
\* and has no reverse pointer, every stream whose fetch_status returned is
\* still in the set, and every user was swept.
C23_SweepRemovesStale ==
    sweep.pc = "done" =>
        /\ \A u \in Users, t \in PStreams :
             (t \in sweep.start[u] /\ <<u, t>> \in sweep.failed)
             => t \notin pset[u] /\ reverse[t] = NoUser
        /\ \A u \in Users, t \in PStreams :
             <<u, t>> \in sweep.passed => t \in pset[u]
        /\ Len(sweep.users) = 0


(***************************************************************************)
(* Properties of the chat readers.                                         *)
(***************************************************************************)
\* C24: for each user the messages reach the Chat Gateway in the order in
\* which the polls returned them: the forwarded read positions increase.
C24_ForwardedInReadOrder ==
    \A u \in Users :
        \A i, j \in 1..Len(forwarded[u]) :
            i < j => forwarded[u][i] < forwarded[u][j]


(***************************************************************************)
(* Properties of RedisCache.                                               *)
(***************************************************************************)
\* The safe default of each operation: None, False, 0 or the empty set.
C25_Default(op) ==
    IF op = "get" THEN PyNone
    ELSE IF op = "smembers" THEN PySet({})
    ELSE IF op \in {"sadd", "srem", "scard"} THEN PyInt(0)
    ELSE PyBool(FALSE)

\* C25: no RedisCache operation raises; with no client, or when the store
\* call fails, it returns its safe default and the data is as before; a
\* connect() on a client that is set changes nothing and calls nothing.
C25_NeverRaises ==
    /\ [](redisResp.outcome # "raised")
    /\ []((redisResp.op \in RedisOps
           /\ (~redisResp.clientSet \/ redisResp.error # "none"))
          => redisResp.value = C25_Default(redisResp.op))
    /\ []((redisResp.op \in RedisOps /\ ~redisResp.clientSet)
          => redisResp.storeCalls = 0)
    /\ [][(redisClient /\ RedisConnectBegin)
          => /\ redisClient' = redisClient
             /\ redisData' = redisData
             /\ redisConn' = redisConn
             /\ redisResp'.storeCalls = 0]_vars

\* C25 witness: on a connected client the store call of smembers failed
\* and the call returned the empty set although the set has members.
C25_Witness ==
    /\ redisClient
    /\ redisResp.op = "smembers"
    /\ redisResp.clientSet
    /\ redisResp.error = "ConnectionError"
    /\ redisResp.value = PySet({})
    /\ redisData["s"].members # {}


(***************************************************************************)
(* Properties of the Twitch IRC client.                                    *)
(***************************************************************************)
\* C26: the connect loop is always at one of its steps; whenever it sleeps
\* after a failure is_connected is false and the delay is 30 seconds when
\* no active token was available and 5 seconds otherwise; is_connected is
\* true only while listening after a completed handshake.
C26_ConnectLoop ==
    /\ irc.pc \in {"start", "refreshing", "get_token", "opening",
                   "draining", "listening", "sleeping"}
    /\ irc.pc = "sleeping" =>
         /\ ~irc.is_connected
         /\ irc.delay = IF irc.cause \in {"HTTPException 401", "no_token"}
                        THEN 30 ELSE 5
    /\ irc.is_connected => irc.pc = "listening"


\* C27: refresh_token_if_needed changes nothing unless the newest active
\* row expires within 5 minutes or has expired; a row without a refresh
\* token, and a row whose refresh failed, becomes inactive; after a
\* successful refresh the row has the new access token and expiry and is
\* as active as before, and a client whose token was the row's previous
\* access token has the new one.
C27_RefreshIfNeeded ==
    [][/\ \A dbOk \in BOOLEAN, commitOk \in BOOLEAN :
            RefreshTokenIfNeededBegin(dbOk, commitOk) =>
              IF IrcActiveRows = {} THEN ircRows' = ircRows
              ELSE LET row == Newest(IrcActiveRows) IN
                   /\ ~ExpiresSoon(ircRows[row]) => ircRows' = ircRows
                   /\ (/\ ExpiresSoon(ircRows[row])
                       /\ ~ircRows[row].refresh_token
                       /\ dbOk /\ commitOk)
                      => ~ircRows'[row].is_active
       /\ \A ok \in BOOLEAN, new \in IrcTokens, newExpiry \in Expiries :
            RefreshTokenIfNeededReturn(ok, new, newExpiry, TRUE) =>
              LET row == ircRef.row IN
              IF ok
              THEN /\ ircRows'[row].access_token = new
                   /\ ircRows'[row].expires_at = newExpiry
                   /\ ircRows'[row].is_active = ircRows[row].is_active
                   /\ irc.token = ircRef.before => irc'.token = new
              ELSE ~ircRows'[row].is_active]_vars


C29_UnknownSubId(subId) ==
    \A v \in Users :
        subs[v] = NoSub \/ subs[v].stripe_subscription_id # subId

\* C29: an event of an unrecognised type, a checkout.session.completed
\* event, and a subscription update, subscription deletion, payment success
\* or payment failure naming a processor subscription id that no row
\* carries, leave every Subscription and Transaction row as it was.
C29_WebhookFrame ==
    [][\A ev \in WebhookEvents :
         (/\ \/ ev.type \in {"charge.refunded", "checkout.session.completed"}
             \/ /\ ev.type \in {"customer.subscription.updated",
                                "customer.subscription.deleted",
                                "invoice.payment_succeeded",
                                "invoice.payment_failed"}
                /\ C29_UnknownSubId(ev.subId)
          /\ HandleWebhookEvent(ev.type, ev.u, ev.subId, ev.price, ev.status,
                                ev.intent, ev.cents))
         => /\ subs' = subs
            /\ cancelInfo' = cancelInfo
            /\ txns' = txns]_vars

\* C29 witness: a subscription row exists and a webhook was answered with
\* success although no transaction was ever recorded: the delivery was one
\* the dispatch only logs, or an invoice of an unknown subscription.
C29_Witness ==
    /\ hookResp = 200
    /\ txns = <<>>
    /\ \E v \in Users : subs[v] # NoSub
    /\ \E subId \in StripeSubIds : C29_UnknownSubId(subId)


(***************************************************************************)
(* Properties of the stream limit under concurrent requests.               *)
(***************************************************************************)
\* C30: in every reachable state, the in-memory active-stream set of a user
\* whose plan has a finite max_concurrent_streams N holds at most N stream
\* ids, also while several start_broadcasting calls of that user wait for
\* the worker.
C30_LimitNeverExceeded ==
    \A u \in Users :
        (subs[u] # NoSub /\ PlanMaxStreams(u) # None)
        => Cardinality(userStreams[u]) <= PlanMaxStreams(u)


(***************************************************************************)
(* Properties of the tracking maps.                                        *)
(***************************************************************************)
\* C31: between the await points of any interleaving of start_broadcasting
\* and stop_broadcast, a stream id is in the active-stream set of user u
\* exactly when the stream-to-user map sends it to u, and every stream id
\* with a recorded platform is a key of the stream-to-user map.
C31_MapsAgree ==
    /\ \A u \in Users, s \in Sids :
         s \in userStreams[u] <=> streamToUser[s] = u
    /\ \A s \in Sids :
         streamPlatforms[s] # "none" => streamToUser[s] # NoUser


(***************************************************************************)
(* Properties of streams the worker no longer has.                         *)
(***************************************************************************)
\* C32: a stream id that is in a user's in-memory active-stream set and
\* that the worker no longer has is eventually removed from the set.
C32_GoneStreamRemoved ==
    \A u \in Users, s \in Sids :
        (s \in userStreams[u] /\ s \in gone) ~> (s \notin userStreams[u])


(***************************************************************************)
(* Properties of the chat sessions closed by stop_broadcast.               *)
(***************************************************************************)
\* C33: stop_broadcast asks the gateway to close the owner's chat session
\* on a platform only if the owner has no other tracked stream recorded
\* for that platform.
C33_DisconnectOnlyLast ==
    [][\A q \in StopReqs :
         (preq[q].pc = "deleting" /\ preq'[q].pc = "disconnecting") =>
            ~\E s2 \in Sids :
                /\ s2 # preq[q].sid
                /\ streamToUser[s2] = preq'[q].user
                /\ streamPlatforms[s2] = preq'[q].platform]_vars


(***************************************************************************)
(* Properties of a Twitch client that was stopped.                         *)
(***************************************************************************)
\* C34: after stop_connection_for_user has completed, the removed client's
\* connect loop never again reports is_connected = true.
C34_StoppedStaysDown == irc.stopped => ~irc.is_connected


(***************************************************************************)
(* Properties of the poll loops of one YouTube client.                     *)
(***************************************************************************)
\* The tasks that are inside _poll_messages of client c.
PollLoopsOn(c) ==
    {t \in PollTasks : /\ pollers[t].client = c
                       /\ pollers[t].pc \in {"loop", "forwarding"}}

\* C35: at most one poll loop is running for a YouTube client at any time.
C35_OnePollLoop ==
    \A c \in 1..MaxClients : Cardinality(PollLoopsOn(c)) <= 1


(***************************************************************************)
(* Properties of a YouTube client after disconnect().                      *)
(***************************************************************************)
\* C36: once disconnect() has completed for a client, the client never
\* again reports is_connected = true.
C36_DisconnectedStaysDown == yt.disconnected => ~yt.is_connected


(***************************************************************************)
(* Properties of the subscriptions table as rows.                          *)
(***************************************************************************)
\* C37: in every reachable state each user has at most one Subscription
\* row.
C37_OneRowPerUser ==
    \A u \in Users : Cardinality(SubRowsOf(u)) <= 1


(***************************************************************************)
(* Properties of the limits start_broadcasting enforces.                   *)
(***************************************************************************)
\* What GET /api/payments/limits reports for a subscription row.
ReportedLimits(sub) ==
    IF ~IsActive(sub) THEN FreeLimitsLiteral ELSE GetPlanLimits(sub.plan)

\* What start_broadcasting reads for a subscription row.
EnforcedLimits(sub) == GetPlanLimits(sub.plan)

\* C38: the limits start_broadcasting enforces are never more permissive
\* than the limits GET /api/payments/limits reports for the same
\* subscription: the maximum quality is not higher, and a start that
\* passes the concurrent-stream check is below the reported maximum.
C38_EnforcedWithinReported ==
    /\ [](\A u \in Users :
            subs[u] # NoSub =>
               QualityOrder[DictGet(EnforcedLimits(subs[u]),
                                    "max_quality", "720p")]
                 <= QualityOrder[DictGet(ReportedLimits(subs[u]),
                                         "max_quality", "720p")])
    /\ [][\A r \in StartReqs :
            (sreq[r].pc = "idle" /\ sreq'[r].pc = "posting") =>
               ~LimitReached(
                   DictGet(ReportedLimits(subs'[sreq'[r].user]),
                           "max_concurrent_streams", None),
                   ActiveStreamCount(sreq'[r].user))]_vars


(***************************************************************************)
(* Properties of cached reads after an invalidation.                       *)
(***************************************************************************)
\* C39: a call of the cached read made after an invalidation has completed
\* returns a value computed by an invocation of the wrapped function that
\* started after that invalidation.
C39_FreshAfterInvalidation ==
    \A c \in ReadCalls :
        (reads[c].pc = "done" /\ reads[c].began >= 1) =>
            reads[c].started >= reads[c].began


(***************************************************************************)
(* Properties of starting a YouTube connection again.                      *)
(***************************************************************************)
\* C40: a start_connection_for_user for a user whose client's tasks have
\* all ended begins a new connect attempt.
C40_RestartAfterEnd == lastStart # "returned_ended"

====
